---- MODULE Spec2Model ----
(***************************************************************************)
(* Verification model of the LibreQoS bufferbloat test server.             *)
(*                                                                         *)
(* The subsystems are modelled one by one, each with its own               *)
(* specifications over the variables it owns (the other variables stay at *)
(* their initial value):                                                   *)
(*   Spec         the per-IP connection limiter (server/rate_limiter.py)   *)
(*                and the HTTP endpoints /download, /netflix-chunk and     *)
(*                /upload that acquire and release its slots.              *)
(*   SpecWorker   the WebSocket endpoint of a worker process and its       *)
(*                session table (server/simple_user_process.py,            *)
(*                server/websocket_virtual_household.py).                  *)
(*   SpecSched    the worker's background update loop.                     *)
(*   SpecSup      the supervisor of the worker processes                   *)
(*                (server/simple_process_manager.py); SpecSupFair adds     *)
(*                the fairness of its health monitor task.                 *)
(*   SpecLookup   the supervisor together with the persona lookup of the   *)
(*                main server (server/main.py).                            *)
(*   SpecWsLimit  the per-IP WebSocket session limit                       *)
(*                (server/simple_rate_limiter.py) and the WebSocket        *)
(*                endpoints of the main server and of a worker.            *)
(*   SpecQuota,   the hourly download quota of the main server's           *)
(*   SpecWindow   middleware (server/main.py, simple_rate_limiter.py).     *)
(*   SpecStop     the session table of one process and its test-stop       *)
(*                endpoint (server/websocket_virtual_household.py).        *)
(*   SpecProfile  the bulk persona's profile in the main server and in     *)
(*                its worker, and the two ways to update it.               *)
(*   SpecShape,   the shaping of a worker's sessions by its background     *)
(*   SpecBurst    loop (generate_download_traffic_bulk).                   *)
(*   SpecLatency  the latency tracker of a session and the pongs of its    *)
(*                client (PerUserLatencyTracker).                          *)
(*   SpecMessages the message loop of one WebSocket of a worker and the    *)
(*                tasks that send on the same socket.                      *)
(*   SpecNetflix  POST /netflix-chunk as a function of the request         *)
(*                (server/endpoints/download.py).                          *)
(*   SpecExpiry   the expiry check of a session (is_session_expired).      *)
(***************************************************************************)
EXTENDS Integers, Sequences, FiniteSets, Bags, TLC

(***************************************************************************)
(* Bounds of the model.                                                    *)
(***************************************************************************)
\* number of HTTP requests that may be in flight at the same time
MaxRequests == 4

(***************************************************************************)
(* Program constants.                                                      *)
(***************************************************************************)
\* RateLimiter.__init__: self.MAX_DOWNLOAD_CONNECTIONS = 3
MAX_DOWNLOAD_CONNECTIONS == 3
\* RateLimiter.__init__: self.MAX_UPLOAD_CONNECTIONS = 100
MAX_UPLOAD_CONNECTIONS == 100
\* upload.py: MAX_REQUEST_SIZE = 512 * 1024 * 1024, counted here in MiB
MAX_REQUEST_SIZE == 512
\* size in MiB that one modelled read of the request stream adds (a run of
\* chunks of request.stream(); the cap is tested after every addition)
UploadStepMiB == 512

IPs == {"ip1", "ip2"}
\* the clients: an address and whether the User-Agent is the central server's
\* (RateLimiter.is_central_server_request); ip1 is shared by both kinds
Clients == {[ip |-> "ip1", central |-> FALSE], [ip |-> "ip1", central |-> TRUE],
            [ip |-> "ip2", central |-> FALSE]}
Outcomes == {"ok", "error", "cancelled"}

VARIABLES
    connections,   \* RateLimiter.connections: ip -> ConnectionTracker counts
    inflight,      \* bag of the HTTP requests whose work has not ended
    last,          \* the request that ended (or was rejected) last
    user_type,     \* UserProcess.user_type: the persona this worker serves
    now,           \* the worker's clock, time.time() in milliseconds
    ws,            \* the worker's WebSocket handlers: position and user_id
    sessions,      \* session_manager.sessions: user_id -> TrafficSession
    others,        \* sessions in the table that belong to sockets not modelled one by one
    running,       \* session_manager.running
    loop,          \* background_update_loop: position, start of the pass, wake-up time
    pm_running,    \* SimpleProcessManager.running
    processes,     \* SimpleProcessManager.processes: persona -> ProcessInfo
    procs,         \* the worker processes spawned so far, per persona, with their status
    total_restarts,\* restarts counted by _restart_process, per persona
    startup,       \* start_all_processes: position
    monitor,       \* health_monitor_task: position of _health_monitor_loop
    stopper,       \* stop_all_processes: position
    deaths,        \* worker processes that exited on their own
    http_failures, \* HTTP health checks of live workers that failed
    response,      \* the last answer of the lookup endpoint
    websocket_sessions_count, \* SimpleRateLimiter.websocket_sessions_count: ip -> count
    wsconns,       \* bag of the WebSocket connections attempted so far
    download_history, \* SimpleRateLimiter.download_history: ip -> DownloadRecords
    last_cleanup,  \* SimpleRateLimiter.last_cleanup
    current_time,  \* time.time() of the main server, in seconds
    served,        \* per ip, the times of the /download tests served in the last hour
    budget,        \* requests the clients still make in this behaviour
    household_sessions, \* session_manager.sessions of the main server: user_id -> session
    stop_response, \* the last answer of stop_user_sessions
    user_profiles, \* per process, user_profiles[user_type].download_mbps, in kbit/s
    requested,     \* per process, the rate its last profile update asked for
    traffic_sessions, \* the sessions of persona user_type: id -> TrafficSession
    created,       \* TrafficSessions constructed so far
    shape_now,     \* time.time() of the worker that shapes, in ms
    horizon,       \* the time up to which this behaviour is followed, in ms
    last_tick,     \* the last call of generate_download_traffic_bulk
    window,        \* a measurement window opened on one session
    latency_tracker, \* session.latency_tracker of one session
    lat_now,       \* time.time() of the process that holds that session, in ms
    inbox,         \* frames a client has sent on a socket, not yet received
    outbox,        \* frames the server has sent on that socket, in order
    received,      \* the pings the message loop has taken from that socket
    peer,          \* that socket and its session: client_state, active, handler
    call,           \* one call of a function: its arguments and its result
    pings, \* the sequence numbers of the pings the latency task has sent
    cancelled \* background loop tasks that have been cancelled and have not run their finally block yet

rlVars == <<connections, inflight, last>>
wkVars == <<user_type, now, ws, sessions, others, running, loop>>
pmVars == <<pm_running, processes, procs, total_restarts, startup, monitor, stopper,
           deaths, http_failures, response>>
wlVars == <<websocket_sessions_count, wsconns>>
hlVars == <<download_history, last_cleanup, current_time, served, budget>>
stVars == <<household_sessions, stop_response>>
shVars == <<user_profiles, requested, traffic_sessions, created, shape_now, horizon,
           last_tick, window>>
msVars == <<latency_tracker, lat_now, inbox, outbox, received, peer>>
fnVars == <<call>>
pgVars == <<pings>>
rcVars == <<cancelled>>
vars == <<connections, inflight, last, user_type, now, ws, sessions, others, running, loop,
         pm_running, processes, procs, total_restarts, startup, monitor, stopper,
         deaths, http_failures, response, websocket_sessions_count, wsconns,
         download_history, last_cleanup, current_time, served, budget,
         household_sessions, stop_response, user_profiles, requested, traffic_sessions,
         created, shape_now, horizon, last_tick, window, latency_tracker, lat_now,
         inbox, outbox, received, peer,
         call,
         pings,
         cancelled>>
nonRlVars == <<wkVars, pmVars, wlVars, hlVars, stVars, shVars, msVars, fnVars, pgVars, rcVars>>
nonWkVars == <<rlVars, pmVars, wlVars, hlVars, stVars, shVars, msVars, fnVars, pgVars, rcVars>>
nonPmVars == <<rlVars, wkVars, wlVars, hlVars, stVars, shVars, msVars, fnVars, pgVars, rcVars>>
nonWlVars == <<rlVars, wkVars, pmVars, hlVars, stVars, shVars, msVars, fnVars, pgVars, rcVars>>
nonHlVars == <<rlVars, wkVars, pmVars, wlVars, stVars, shVars, msVars, fnVars, pgVars, rcVars>>
nonStVars == <<rlVars, wkVars, pmVars, wlVars, hlVars, shVars, msVars, fnVars, pgVars, rcVars>>
nonShVars == <<rlVars, wkVars, pmVars, wlVars, hlVars, stVars, msVars, fnVars, pgVars, rcVars>>
nonMsVars == <<rlVars, wkVars, pmVars, wlVars, hlVars, stVars, shVars, fnVars, pgVars, rcVars>>
nonFnVars == <<rlVars, wkVars, pmVars, wlVars, hlVars, stVars, shVars, msVars, pgVars, rcVars>>
nonPgVars == <<rlVars, wkVars, pmVars, wlVars, hlVars, stVars, shVars, msVars, fnVars, rcVars>>
nonRcVars == <<rlVars, wkVars, pmVars, wlVars, hlVars, stVars, shVars, msVars, fnVars, pgVars>>

\* a request in flight: endpoint, client IP, central-server User-Agent, bytes
\* read so far (upload, MiB) and the releases its handler has performed
InFlight(kind, ip, central, size, releases) ==
    [kind |-> kind, ip |-> ip, central |-> central, size |-> size, releases |-> releases]

\* a request that ended: its HTTP status (0: no response, the task was
\* cancelled), whether its acquire succeeded, and the releases performed
Ended(kind, status, acquired, releases) ==
    [kind |-> kind, status |-> status, acquired |-> acquired, releases |-> releases]

NoReq == Ended("none", 0, FALSE, 0)

StatusOf(outcome) ==
    CASE outcome = "ok" -> 200
      [] outcome = "error" -> 500
      [] OTHER -> 0

\* ConnectionTracker(ip=ip): all counts start at 0
NewTracker == [active_downloads |-> 0, active_uploads |-> 0]

Max(a, b) == IF a >= b THEN a ELSE b

\* RateLimiter.get_or_create_tracker: the table after the lookup
GetOrCreateTracker(conn, ip) ==
    IF ip \in DOMAIN conn THEN conn
    ELSE [i \in DOMAIN conn \cup {ip} |-> IF i = ip THEN NewTracker ELSE conn[i]]

\* RateLimiter.global_cleanup: when the cleanup interval has elapsed, drop the
\* trackers that hold no active connection (no ping or static request is
\* modelled, so a tracker has no recent request)
GlobalCleanup(conn, elapsed) ==
    IF ~elapsed THEN conn
    ELSE LET keep == {i \in DOMAIN conn :
                         conn[i].active_downloads > 0 \/ conn[i].active_uploads > 0}
         IN  [i \in keep |-> conn[i]]

\* RateLimiter.check_download_limit: TRUE when the request is admitted
\* (a central-server request bypasses the limit, any other is admitted while
\* the tracker holds fewer than MAX_DOWNLOAD_CONNECTIONS downloads)
DownloadAdmitted(conn, ip, central) ==
    \/ central
    \/ GetOrCreateTracker(conn, ip)[ip].active_downloads < MAX_DOWNLOAD_CONNECTIONS

\* RateLimiter.check_download_limit: the table after the call
CheckDownloadLimit(conn, ip, central) ==
    IF central THEN conn
    ELSE LET c == GetOrCreateTracker(conn, ip)
         IN  IF c[ip].active_downloads >= MAX_DOWNLOAD_CONNECTIONS THEN c
             ELSE [c EXCEPT ![ip].active_downloads = @ + 1]

\* RateLimiter.release_download_connection
ReleaseDownloadConnection(conn, ip, elapsed) ==
    GlobalCleanup(
        IF ip \in DOMAIN conn
        THEN [conn EXCEPT ![ip].active_downloads = Max(0, @ - 1)]
        ELSE conn,
        elapsed)

\* RateLimiter.check_upload_limit
UploadAdmitted(conn, ip, central) ==
    \/ central
    \/ GetOrCreateTracker(conn, ip)[ip].active_uploads < MAX_UPLOAD_CONNECTIONS

CheckUploadLimit(conn, ip, central) ==
    IF central THEN conn
    ELSE LET c == GetOrCreateTracker(conn, ip)
         IN  IF c[ip].active_uploads >= MAX_UPLOAD_CONNECTIONS THEN c
             ELSE [c EXCEPT ![ip].active_uploads = @ + 1]

\* RateLimiter.release_upload_connection
ReleaseUploadConnection(conn, ip, elapsed) ==
    GlobalCleanup(
        IF ip \in DOMAIN conn
        THEN [conn EXCEPT ![ip].active_uploads = Max(0, @ - 1)]
        ELSE conn,
        elapsed)

\* the server has room for one more request in flight
CanArrive == BagCardinality(inflight) < MaxRequests

(***************************************************************************)
(* GET /download: download_endpoint.  The handler has no suspension point:  *)
(* it acquires, builds the StreamingResponse and runs its finally block     *)
(* (the release) before the response body is streamed.                      *)
(***************************************************************************)
DownloadEndpoint(ip, central, elapsed) ==
    /\ CanArrive
    /\ IF DownloadAdmitted(connections, ip, central)
       THEN /\ connections' = ReleaseDownloadConnection(
                                  CheckDownloadLimit(connections, ip, central), ip, elapsed)
            /\ inflight' = inflight (+) SetToBag({InFlight("download", ip, central, 0, 1)})
            /\ UNCHANGED <<last, nonRlVars>>
       ELSE /\ connections' = CheckDownloadLimit(connections, ip, central)
            /\ last' = Ended("download", 429, FALSE, 0)
            /\ UNCHANGED <<inflight, nonRlVars>>

\* download_generator: the stream runs until request.is_disconnected() (or
\* the task is cancelled); nothing of the limiter is touched when it ends
DownloadStreamEnd(q) ==
    /\ q.kind = "download"
    /\ inflight' = inflight (-) SetToBag({q})
    /\ last' = Ended(q.kind, 200, TRUE, q.releases)
    /\ UNCHANGED <<connections, nonRlVars>>

(***************************************************************************)
(* POST /netflix-chunk: netflix_chunk_endpoint.                             *)
(***************************************************************************)
NetflixArrive(ip, central) ==
    /\ CanArrive
    /\ connections' = CheckDownloadLimit(connections, ip, central)
    /\ IF DownloadAdmitted(connections, ip, central)
       THEN /\ inflight' = inflight (+) SetToBag({InFlight("netflix", ip, central, 0, 0)})
            /\ UNCHANGED <<last, nonRlVars>>
       ELSE /\ last' = Ended("netflix", 429, FALSE, 0)
            /\ UNCHANGED <<inflight, nonRlVars>>

\* the handler resumes from `await request.json()`: the chunk is built and
\* returned (200), any exception is answered 500, a cancellation propagates
\* (status 0); the finally block releases on each of these paths
NetflixFinish(q, outcome, elapsed) ==
    /\ q.kind = "netflix"
    /\ connections' = ReleaseDownloadConnection(connections, q.ip, elapsed)
    /\ inflight' = inflight (-) SetToBag({q})
    /\ last' = Ended(q.kind, StatusOf(outcome), TRUE, q.releases + 1)
    /\ UNCHANGED nonRlVars

(***************************************************************************)
(* POST /upload: upload_endpoint.                                           *)
(***************************************************************************)
UploadArrive(ip, central) ==
    /\ CanArrive
    /\ connections' = CheckUploadLimit(connections, ip, central)
    /\ IF UploadAdmitted(connections, ip, central)
       THEN /\ inflight' = inflight (+) SetToBag({InFlight("upload", ip, central, 0, 0)})
            /\ UNCHANGED <<last, nonRlVars>>
       ELSE /\ last' = Ended("upload", 429, FALSE, 0)
            /\ UNCHANGED <<inflight, nonRlVars>>

\* one pass of `async for chunk in request.stream()`: the size is counted and
\* tested against the cap; over the cap the HTTPException(413) is answered
\* and the finally block releases
UploadChunk(q, elapsed) ==
    /\ q.kind = "upload"
    /\ LET size == q.size + UploadStepMiB
       IN  IF size > MAX_REQUEST_SIZE
           THEN /\ connections' = ReleaseUploadConnection(connections, q.ip, elapsed)
                /\ inflight' = inflight (-) SetToBag({q})
                /\ last' = Ended(q.kind, 413, TRUE, q.releases + 1)
           ELSE /\ inflight' = (inflight (-) SetToBag({q}))
                                  (+) SetToBag({[q EXCEPT !.size = size]})
                /\ UNCHANGED <<connections, last>>
    /\ UNCHANGED nonRlVars

\* the request stream ends (200), raises (500) or the task is cancelled
\* (status 0); the finally block releases on each of these paths
UploadFinish(q, outcome, elapsed) ==
    /\ q.kind = "upload"
    /\ connections' = ReleaseUploadConnection(connections, q.ip, elapsed)
    /\ inflight' = inflight (-) SetToBag({q})
    /\ last' = Ended(q.kind, StatusOf(outcome), TRUE, q.releases + 1)
    /\ UNCHANGED nonRlVars

(***************************************************************************)
(* The per-persona worker process (server/simple_user_process.py) and its  *)
(* session manager (server/websocket_virtual_household.py).                *)
(***************************************************************************)
\* WebSocket connections to one worker that are followed one by one
MaxSockets == 3
\* milliseconds the clock advances while the connections arrive (SpecWorker)
MaxMs == 2
\* sessions of other sockets that are in the table when the connections arrive
BaseSessions == 48
\* last instant, in ms, at which the background loop is still followed
MaxNowMs == 62000
\* time, in ms, for which a slow peer holds a send that has no deadline
SendStallMs == 500
\* sockets followed together with the background loop (SpecSched)
MaxSchedSockets == 1

\* _create_optimized_session_manager: manager.max_users = 50
max_users == 50
\* TrafficSession.inactivity_timeout = 30.0 (seconds), in ms
inactivity_timeout == 30000
\* TrafficSession.max_connection_failures = 3
max_connection_failures == 3
\* test_connection_health: asyncio.wait_for(..., timeout=1.0), in ms
connection_test_timeout == 1000

Sockets == 1..MaxSockets
WorkerTypes == {"alex", "computer"}
NoSocket == [pc |-> "idle", user_id |-> -1]
LoopStopped == [pc |-> "stopped", start |-> 0, wake |-> 0, todo |-> {}, validated |-> {}]

\* HighPerformanceSessionManager.user_profiles: download_mbps, in kbit/s
download_kbps(p) ==
    CASE p = "alex" -> 1500
      [] p = "sarah" -> 2500
      [] p = "jake" -> 25000
      [] OTHER -> 1000000

\* _create_optimized_session_manager: update_interval 0.1 s for the
\* high-throughput personas, 0.25 s for the others, in ms
update_interval(p) == IF download_kbps(p) >= 25000 THEN 100 ELSE 250

\* is_session_expired: max_duration, in ms
max_duration(p) == IF download_kbps(p) > 100000 THEN 45000 ELSE 60000

\* websocket_user_endpoint: user_id = f"{user_type}_{int(time.time() * 1000)}";
\* the persona is the worker's, so the id is told by its millisecond
UserId(t) == t

\* TrafficSession(user_id, websocket, profile, start_time=time.time())
NewSession(w, t) ==
    [owner |-> w, active |-> TRUE, start_time |-> t, last_activity |-> t,
     connection_test_failures |-> 0]

\* len(self.sessions)
SessionCount == others + Cardinality(DOMAIN sessions)

\* a check that lets every session live on
NeverExpired(session, t) == FALSE

\* HighPerformanceSessionManager.is_session_expired
IsSessionExpired(session, t) ==
    \/ t - session.last_activity > inactivity_timeout
    \/ t - session.start_time > max_duration(user_type)
    \/ session.connection_test_failures >= max_connection_failures

Without(table, ids) == [i \in DOMAIN table \ ids |-> table[i]]

\* HighPerformanceSessionManager.stop_session: an entry found under user_id
\* is deleted (whose socket it belongs to is not looked at); when none is
\* found and the table is empty, the background tasks are stopped
StopSession(user_id) ==
    IF user_id \in DOMAIN sessions
    THEN /\ sessions' = Without(sessions, {user_id})
         /\ UNCHANGED <<running, loop>>
    ELSE /\ UNCHANGED sessions
         /\ IF SessionCount = 0 /\ running
            THEN running' = FALSE /\ loop' = LoopStopped
            ELSE UNCHANGED <<running, loop>>

\* connections reach the worker in the order of the sockets' numbers
NextSocket(w) ==
    /\ ws[w].pc = "idle"
    /\ IF w = 1 THEN TRUE ELSE ws[w - 1].pc # "idle"

\* websocket_user_endpoint up to the first suspension of start_session: the
\* id is drawn from the clock and the capacity is tested; under capacity the
\* handler awaits websocket.accept(), at capacity start_session returns False
WsConnect(w) ==
    /\ NextSocket(w)
    /\ ws' = [ws EXCEPT ![w] = [pc |-> IF SessionCount >= max_users
                                        THEN "refusing" ELSE "accepting",
                                user_id |-> UserId(now)]]
    /\ UNCHANGED <<user_type, now, sessions, others, running, loop, nonWkVars>>

\* start_session after websocket.accept(): the session is stored under the
\* id (replacing an entry already there) and the background tasks are started
\* if they do not run; when accept raises, start_session returns False
WsAccept(w, ok) ==
    /\ ws[w].pc = "accepting"
    /\ IF ok
       THEN /\ sessions' = [i \in DOMAIN sessions \cup {ws[w].user_id} |->
                               IF i = ws[w].user_id THEN NewSession(w, now)
                               ELSE sessions[i]]
            /\ running' = TRUE
            /\ loop' = IF running THEN loop ELSE [LoopStopped EXCEPT !.pc = "cleanup"]
            /\ ws' = [ws EXCEPT ![w].pc = "open"]
       ELSE /\ ws' = [ws EXCEPT ![w].pc = "refusing"]
            /\ UNCHANGED <<sessions, running, loop>>
    /\ UNCHANGED <<user_type, now, others, nonWkVars>>

\* websocket_user_endpoint when start_session returned False: the socket is
\* closed with 1013, then the finally block calls stop_session(user_id)
WsRefuse(w) ==
    /\ ws[w].pc = "refusing"
    /\ StopSession(ws[w].user_id)
    /\ ws' = [ws EXCEPT ![w].pc = "refused"]
    /\ UNCHANGED <<user_type, now, others, nonWkVars>>

\* _handle_websocket_messages ends (the peer disconnected, or user_id is no
\* longer in the table) and the finally block calls stop_session(user_id)
WsClose(w) ==
    /\ ws[w].pc = "open"
    /\ StopSession(ws[w].user_id)
    /\ ws' = [ws EXCEPT ![w].pc = "closed"]
    /\ UNCHANGED <<user_type, now, others, nonWkVars>>

\* a millisecond passes
Tick ==
    /\ now < MaxMs
    /\ now' = now + 1
    /\ UNCHANGED <<user_type, ws, sessions, others, running, loop, nonWkVars>>

(***************************************************************************)
(* background_update_loop: one step per stretch between two suspensions.   *)
(***************************************************************************)
\* the session the pass handles next (dict order: oldest first)
NextOf(ids) == CHOOSE i \in ids : \A j \in ids : i <= j

\* end of a pass: sleep_time = max(0, update_interval - total_elapsed); the
\* loop sleeps when it is positive and starts the next pass otherwise
EndOfPass(t) ==
    LET sleep_time == Max(0, update_interval(user_type) - (t - loop.start))
    IN  IF sleep_time > 0
        THEN [loop EXCEPT !.pc = "sleep", !.wake = t + sleep_time,
                          !.todo = {}, !.validated = {}]
        ELSE [loop EXCEPT !.pc = "cleanup", !.todo = {}, !.validated = {}]

\* top of the loop and cleanup_inactive_sessions: sessions that are marked
\* inactive, expired, or whose socket is not connected are stopped and
\* deleted; with no active session left the loop sleeps one update_interval,
\* otherwise it goes on to validate the active ones
SchedCleanup ==
    /\ loop.pc = "cleanup"
    /\ IF ~running
       THEN /\ loop' = LoopStopped
            /\ UNCHANGED sessions
       ELSE LET cleanup == {i \in DOMAIN sessions :
                               \/ ~sessions[i].active
                               \/ IsSessionExpired(sessions[i], now)
                               \/ ws[sessions[i].owner].pc # "open"}
                active_sessions == DOMAIN sessions \ cleanup
            IN  /\ sessions' = Without(sessions, cleanup)
                /\ loop' = IF active_sessions = {}
                           THEN [loop EXCEPT !.pc = "sleep", !.start = now,
                                             !.wake = now + update_interval(user_type)]
                           ELSE [loop EXCEPT !.pc = "validate", !.start = now,
                                             !.todo = active_sessions, !.validated = {}]
    /\ UNCHANGED <<user_type, now, ws, others, running, nonWkVars>>

\* test_connection_health for the next session of the pass: the test message
\* is sent at once ("ok": last_activity is refreshed, the failures are
\* reset), the send raises ("error") or does not complete within the
\* deadline ("timeout": the clock has advanced by connection_test_timeout);
\* a failed session is marked inactive
SchedValidate(outcome) ==
    /\ loop.pc = "validate"
    /\ LET i == NextOf(loop.todo)
           rest == loop.todo \ {i}
           t == IF outcome = "timeout" THEN now + connection_test_timeout ELSE now
           live == i \in DOMAIN sessions /\ sessions[i].active
           validated == IF live /\ outcome = "ok"
                        THEN loop.validated \cup {i} ELSE loop.validated
       IN  /\ t <= MaxNowMs
           /\ now' = IF live THEN t ELSE now
           /\ sessions' =
                 IF ~live THEN sessions
                 ELSE IF outcome = "ok"
                 THEN [sessions EXCEPT ![i].last_activity = now,
                                       ![i].connection_test_failures = 0]
                 ELSE [sessions EXCEPT ![i].active = FALSE,
                                       ![i].connection_test_failures = @ + 1]
           /\ loop' = IF rest # {} THEN [loop EXCEPT !.todo = rest, !.validated = validated]
                      ELSE IF validated # {}
                      THEN [loop EXCEPT !.pc = "shape", !.todo = validated,
                                        !.validated = validated]
                      ELSE EndOfPass(now')
    /\ UNCHANGED <<user_type, ws, others, running, nonWkVars>>

\* a traffic generation whose failure ends the pass, the sessions still to
\* be shaped being skipped
SchedShapeAbort(ok, stalled) ==
    /\ loop.pc = "shape"
    /\ LET i == NextOf(loop.todo)
           rest == IF ok THEN loop.todo \ {i} ELSE {}
           live == i \in DOMAIN sessions /\ sessions[i].active
           t == IF stalled /\ live THEN now + SendStallMs ELSE now
       IN  /\ t <= MaxNowMs
           /\ now' = t
           /\ sessions' =
                 IF ~live THEN sessions
                 ELSE [sessions EXCEPT ![i].active = ok, ![i].last_activity = t]
           /\ loop' = IF rest # {} THEN [loop EXCEPT !.todo = rest] ELSE EndOfPass(t)
    /\ UNCHANGED <<user_type, ws, others, running, nonWkVars>>

\* traffic generation for the next validated session: the download chunks,
\* the upload request and the real-time update are sent (no deadline: a peer
\* that reads slowly holds the loop for SendStallMs); a send that raises
\* marks the session inactive; last_activity is refreshed
SchedShape(ok, stalled) ==
    /\ loop.pc = "shape"
    /\ LET i == NextOf(loop.todo)
           rest == loop.todo \ {i}
           live == i \in DOMAIN sessions /\ sessions[i].active
           t == IF stalled /\ live THEN now + SendStallMs ELSE now
       IN  /\ t <= MaxNowMs
           /\ now' = t
           /\ sessions' =
                 IF ~live THEN sessions
                 ELSE [sessions EXCEPT ![i].active = ok, ![i].last_activity = t]
           /\ loop' = IF rest # {} THEN [loop EXCEPT !.todo = rest] ELSE EndOfPass(t)
    /\ UNCHANGED <<user_type, ws, others, running, nonWkVars>>

\* asyncio.sleep returns: the next pass starts
SchedWake ==
    /\ loop.pc = "sleep"
    /\ loop.wake <= MaxNowMs
    /\ now' = Max(now, loop.wake)
    /\ loop' = [loop EXCEPT !.pc = "cleanup"]
    /\ UNCHANGED <<user_type, ws, sessions, others, running, nonWkVars>>

(***************************************************************************)
(* The supervisor of the worker processes                                  *)
(* (server/simple_process_manager.py) and the lookup endpoint of the main  *)
(* server (server/main.py).                                                *)
(***************************************************************************)
\* worker processes that may exit on their own in one behaviour
MaxDeaths == 4
\* HTTP health checks of live workers that may fail in one behaviour
MaxHttpFailures == 1

\* SimpleProcessManager.__init__: self.max_restart_attempts = 3
max_restart_attempts == 3

\* SimpleProcessManager.user_ports, in the order of the dict
PersonaOrder == <<"jake", "alex", "sarah", "computer">>
Personas == {PersonaOrder[k] : k \in 1..Len(PersonaOrder)}
user_ports(p) ==
    CASE p = "jake" -> 8001
      [] p = "alex" -> 8002
      [] p = "sarah" -> 8003
      [] OTHER -> 8004

NoTask == [pc |-> "none", todo |-> << >>, cur |-> "none"]

\* ProcessInfo(persona, port, process, start_time, is_healthy=True):
\* restart_count defaults to 0 (process: the index of the process in procs)
ProcessInfo(persona, process) ==
    [port |-> user_ports(persona), process |-> process, restart_count |-> 0,
     is_healthy |-> TRUE]

\* process.is_alive() as the operating system would answer it
IsAlive(persona, k) == procs[persona][k] = "alive"

\* the process spawned last for a persona
Newest(persona) == Len(procs[persona])

\* multiprocessing.Process(...).start()
Spawned(persona) == [procs EXCEPT ![persona] = Append(@, "alive")]

\* is_alive() / join() collect a process that has exited
Reaped(table, persona, k) ==
    IF table[persona][k] = "exited" THEN [table EXCEPT ![persona][k] = "reaped"]
    ELSE table

\* the personas of a set in dict order
InOrder(set) == SelectSeq(PersonaOrder, LAMBDA q : q \in set)

\* SimpleProcessManager(): nothing started, no task, no lookup answered
PmInit ==
    /\ pm_running = FALSE
    /\ processes = << >>
    /\ procs = [q \in Personas |-> << >>]
    /\ total_restarts = [q \in Personas |-> 0]
    /\ startup = [pc |-> "init", k |-> 0, success_count |-> 0]
    /\ monitor = NoTask
    /\ stopper = "idle"
    /\ deaths = 0
    /\ http_failures = 0
    /\ response = [status |-> 0, redirect |-> FALSE, port |-> 0, listed |-> FALSE,
                   available_processes |-> {}]

\* a worker process exits on its own (crash, kill from outside)
Die(persona, k) ==
    /\ deaths < MaxDeaths
    /\ IsAlive(persona, k)
    /\ procs' = [procs EXCEPT ![persona][k] = "exited"]
    /\ deaths' = deaths + 1
    /\ UNCHANGED <<pm_running, processes, total_restarts, startup, monitor, stopper,
                   http_failures, response, nonPmVars>>

\* the termination loop of stop_all_processes over a registry: a stored
\* process that is alive gets terminate(), join(5.0) and, if still alive,
\* kill(), join(2.0); is_alive() collects one that has exited
StopProcesses(registry, table) ==
    [q \in Personas |->
        [k \in 1..Len(table[q]) |->
            IF q \in DOMAIN registry /\ registry[q].process = k
            THEN "reaped" ELSE table[q][k]]]

\* start_all_processes up to the first suspension: the first persona's
\* process is started and _start_user_process sleeps 0.5 s
StartAllBegin ==
    /\ startup.pc = "init"
    /\ procs' = Spawned(PersonaOrder[1])
    /\ startup' = [startup EXCEPT !.pc = "wait", !.k = 1]
    /\ UNCHANGED <<pm_running, processes, total_restarts, monitor, stopper, deaths,
                   http_failures, response, nonPmVars>>

\* _start_user_process after the sleep, for persona k of start_all_processes:
\* a process that is alive is stored; then the next persona's process is
\* started, or, after the last, the supervisor runs and the monitor is created
\* if all have started, and stop_all_processes cleans up otherwise
StartAllStep ==
    /\ startup.pc = "wait"
    /\ LET q == PersonaOrder[startup.k]
           alive == IsAlive(q, Newest(q))
           stored == IF alive
                     THEN [i \in DOMAIN processes \cup {q} |->
                              IF i = q THEN ProcessInfo(q, Newest(q)) ELSE processes[i]]
                     ELSE processes
           success_count == startup.success_count + (IF alive THEN 1 ELSE 0)
           collected == Reaped(procs, q, Newest(q))
       IN  IF startup.k < Len(PersonaOrder)
           THEN /\ processes' = stored
                /\ procs' = [collected EXCEPT ![PersonaOrder[startup.k + 1]] =
                                                  Append(@, "alive")]
                /\ startup' = [startup EXCEPT !.k = @ + 1, !.success_count = success_count]
                /\ UNCHANGED <<pm_running, monitor>>
           ELSE IF success_count = Len(PersonaOrder)
           THEN /\ processes' = stored
                /\ procs' = collected
                /\ pm_running' = TRUE
                /\ monitor' = [NoTask EXCEPT !.pc = "sleep"]
                /\ startup' = [startup EXCEPT !.pc = "done", !.success_count = success_count]
           ELSE /\ processes' = << >>
                /\ procs' = StopProcesses(stored, collected)
                /\ pm_running' = FALSE
                /\ monitor' = monitor
                /\ startup' = [startup EXCEPT !.pc = "done", !.success_count = success_count]
    /\ UNCHANGED <<total_restarts, stopper, deaths, http_failures, response, nonPmVars>>

(***************************************************************************)
(* _health_monitor_loop, _check_all_process_health and _restart_process.   *)
(***************************************************************************)
\* a supervisor that restarts whatever it has marked unhealthy
NeedsRestartWhenUnhealthy(persona, info) == ~info.is_healthy

\* _check_all_process_health: the stored process is owned and not alive
NeedsRestart(persona, info) == ~IsAlive(persona, info.process)

\* a supervisor that compares the restart count the wrong way round
RestartAllowedInverted(info) == info.restart_count > max_restart_attempts

\* a supervisor that restarts a persona once and then gives it up
RestartAllowedOnce(info) == info.restart_count < 1

\* _check_all_process_health: restart_count < self.max_restart_attempts
RestartAllowed(info) == info.restart_count < max_restart_attempts

\* _restart_process, "Clean up old process": a process still alive gets
\* terminate() and join(2.0), and kill() without a join if that did not end
\* it; is_alive() collects one that has exited
CleanedUp(table, persona, k, graceful) ==
    IF table[persona][k] = "alive"
    THEN [table EXCEPT ![persona][k] = IF graceful THEN "reaped" ELSE "exited"]
    ELSE Reaped(table, persona, k)

\* the pass goes on with the next stored persona, or the loop sleeps
\* health_check_interval
AfterItem(rest) ==
    IF rest = << >> THEN [NoTask EXCEPT !.pc = "sleep"]
    ELSE [NoTask EXCEPT !.pc = "check", !.todo = rest]

\* asyncio.sleep(health_check_interval) returns: a pass over
\* list(self.processes.items()) begins
MonWake ==
    /\ monitor.pc = "sleep"
    /\ monitor' = AfterItem(InOrder(DOMAIN processes))
    /\ UNCHANGED <<pm_running, processes, procs, total_restarts, startup, stopper,
                   deaths, http_failures, response, nonPmVars>>

\* one persona of the pass: a stored process that is not alive is marked
\* unhealthy and restarted (the task then sleeps restart_delay) or, out of
\* restarts, dropped from the table; for a live one the HTTP health check
\* sets is_healthy (at most MaxHttpFailures checks fail in one behaviour)
MonCheck(health_ok, graceful) ==
    /\ monitor.pc = "check"
    /\ LET q == Head(monitor.todo)
           rest == Tail(monitor.todo)
           info == processes[q]
       IN  IF NeedsRestart(q, info)
           THEN IF RestartAllowed(info)
                THEN /\ processes' = [processes EXCEPT ![q].is_healthy = FALSE]
                     /\ procs' = CleanedUp(procs, q, info.process, graceful)
                     /\ monitor' = [pc |-> "delay", todo |-> rest, cur |-> q]
                ELSE /\ processes' = Without(processes, {q})
                     /\ procs' = Reaped(procs, q, info.process)
                     /\ monitor' = AfterItem(rest)
           ELSE /\ health_ok \/ http_failures < MaxHttpFailures
                /\ processes' = [processes EXCEPT ![q].is_healthy = health_ok]
                /\ procs' = procs
                /\ monitor' = AfterItem(rest)
    /\ http_failures' =
          IF NeedsRestart(Head(monitor.todo), processes[Head(monitor.todo)]) \/ health_ok
          THEN http_failures ELSE http_failures + 1
    /\ UNCHANGED <<pm_running, total_restarts, startup, stopper, deaths, response,
                   nonPmVars>>

\* _restart_process after asyncio.sleep(restart_delay): _start_user_process
\* starts the new process and sleeps 0.5 s
MonDelayDone ==
    /\ monitor.pc = "delay"
    /\ procs' = Spawned(monitor.cur)
    /\ monitor' = [monitor EXCEPT !.pc = "wait"]
    /\ UNCHANGED <<pm_running, processes, total_restarts, startup, stopper, deaths,
                   http_failures, response, nonPmVars>>

\* _start_user_process after the sleep, called by _restart_process: a process
\* that is alive is stored in a new ProcessInfo, whose restart_count
\* _restart_process then increments; the pass goes on
MonStartCheck ==
    /\ monitor.pc = "wait"
    /\ LET q == monitor.cur
       IN  IF IsAlive(q, Newest(q))
           THEN /\ processes' = [processes EXCEPT
                                    ![q] = [ProcessInfo(q, Newest(q)) EXCEPT
                                               !.restart_count = @ + 1]]
                /\ total_restarts' = [total_restarts EXCEPT ![q] = @ + 1]
                /\ procs' = procs
           ELSE /\ procs' = Reaped(procs, q, Newest(q))
                /\ UNCHANGED <<processes, total_restarts>>
    /\ monitor' = AfterItem(monitor.todo)
    /\ UNCHANGED <<pm_running, startup, stopper, deaths, http_failures, response, nonPmVars>>

(***************************************************************************)
(* stop_all_processes (called by the shutdown event of the main server).   *)
(***************************************************************************)
\* running is cleared and the monitor task, if there is one, is cancelled and
\* awaited; without a task the termination loop follows at once
StopBegin ==
    /\ startup.pc = "done"
    /\ stopper = "idle"
    /\ pm_running' = FALSE
    /\ IF monitor.pc # "none"
       THEN /\ monitor' = [monitor EXCEPT !.pc = "cancelled"]
            /\ stopper' = "cancelling"
            /\ UNCHANGED <<processes, procs>>
       ELSE /\ procs' = StopProcesses(processes, procs)
            /\ processes' = << >>
            /\ stopper' = "done"
            /\ UNCHANGED monitor
    /\ UNCHANGED <<total_restarts, startup, deaths, http_failures, response, nonPmVars>>

\* the monitor task has ended: the termination loop over self.processes, then
\* self.processes.clear()
StopFinish ==
    /\ stopper = "cancelling"
    /\ procs' = StopProcesses(processes, procs)
    /\ processes' = << >>
    /\ stopper' = "done"
    /\ UNCHANGED <<pm_running, total_restarts, startup, monitor, deaths, http_failures,
                   response, nonPmVars>>

(***************************************************************************)
(* GET /ws/virtual-household/{user_id}: websocket_virtual_user_redirect.    *)
(***************************************************************************)
LookupIds == Personas \cup {"Jake2", "guest"}

\* `known_type in user_id.lower()` for the ids of LookupIds
Mentions(user_id, known_type) ==
    \/ user_id = known_type
    \/ user_id = "Jake2" /\ known_type = "jake"

\* SimpleProcessManager.get_port_for_user; 0 stands for None
GetPortForUser(user_id) ==
    LET hits == SelectSeq(PersonaOrder, LAMBDA known : Mentions(user_id, known))
    IN  IF hits = << >> THEN 0
        ELSE IF Head(hits) \in DOMAIN processes /\ processes[Head(hits)].is_healthy
             THEN user_ports(Head(hits))
             ELSE 0

\* the handler: a redirect to the worker's port, 503 with
\* list(process_manager.user_ports.keys()) when there is no port, 503 without
\* a list when the supervisor does not run
Lookup(user_id) ==
    /\ startup.pc = "done"
    /\ stopper = "idle"
    /\ response' =
          IF pm_running
          THEN IF GetPortForUser(user_id) # 0
               THEN [status |-> 200, redirect |-> TRUE, port |-> GetPortForUser(user_id),
                     listed |-> FALSE, available_processes |-> {}]
               ELSE [status |-> 503, redirect |-> FALSE, port |-> 0,
                     listed |-> TRUE, available_processes |-> Personas]
          ELSE [status |-> 503, redirect |-> FALSE, port |-> 0,
                listed |-> FALSE, available_processes |-> {}]
    /\ UNCHANGED <<pm_running, processes, procs, total_restarts, startup, monitor,
                   stopper, deaths, http_failures, nonPmVars>>

(***************************************************************************)
(* The per-IP WebSocket limit: SimpleRateLimiter (simple_rate_limiter.py), *)
(* the endpoint websocket_virtual_user of the main server, which consults  *)
(* it, and the endpoint websocket_user_endpoint of a worker process.       *)
(***************************************************************************)
\* WebSocket connections attempted in one behaviour
MaxWsConns == 5
\* SimpleRateLimiter.__init__: RATE_LIMIT_WEBSOCKET_SESSIONS, default 4
websocket_sessions == 4

WsEndpoints == {"main", "worker"}
WsOutcomes == {"disconnect", "error", "cancelled"}

\* a WebSocket connection: position of its handler, client address, the
\* endpoint it was opened on, whether its handler called
\* track_websocket_connect, and the close code the handler sent (0: none)
WsConn(pc, ip, endpoint, counted, code) ==
    [pc |-> pc, ip |-> ip, endpoint |-> endpoint, counted |-> counted, code |-> code]

\* check_websocket_limit: allowed unless current_sessions >= self.websocket_sessions
CheckWebsocketLimit(count, ip) == ~(count[ip] >= websocket_sessions)

\* track_websocket_connect: self.websocket_sessions_count[client_ip] += 1
TrackWebsocketConnect(count, ip) == [count EXCEPT ![ip] = @ + 1]

\* a limiter that forgets to count a session down
TrackWebsocketDisconnectNever(count, ip) == count

\* track_websocket_disconnect: the count goes down by one if it is above 0
\* (an entry that reaches 0 is deleted; the defaultdict reads it as 0)
TrackWebsocketDisconnect(count, ip) ==
    IF count[ip] > 0 THEN [count EXCEPT ![ip] = @ - 1] ELSE count

\* the finally block of the handler: websocket_virtual_user counts the
\* session down, websocket_user_endpoint has no limiter
Released(q) ==
    IF q.endpoint = "main"
    THEN TrackWebsocketDisconnect(websocket_sessions_count, q.ip)
    ELSE websocket_sessions_count

\* websocket_virtual_user up to `await session_manager.start_session`: at
\* the limit the socket is closed with 1008 and the handler returns;
\* otherwise the session is counted
MainWsConnect(ip) ==
    /\ BagCardinality(wsconns) < MaxWsConns
    /\ IF CheckWebsocketLimit(websocket_sessions_count, ip)
       THEN /\ websocket_sessions_count' = TrackWebsocketConnect(websocket_sessions_count, ip)
            /\ wsconns' = wsconns (+) SetToBag({WsConn("starting", ip, "main", TRUE, 0)})
       ELSE /\ websocket_sessions_count' = websocket_sessions_count
            /\ wsconns' = wsconns (+) SetToBag({WsConn("ended", ip, "main", FALSE, 1008)})
    /\ UNCHANGED nonWlVars

\* websocket_user_endpoint up to `await self.session_manager.start_session`:
\* the worker consults no limiter
WorkerWsConnect(ip) ==
    /\ BagCardinality(wsconns) < MaxWsConns
    /\ wsconns' = wsconns (+) SetToBag({WsConn("starting", ip, "worker", FALSE, 0)})
    /\ UNCHANGED <<websocket_sessions_count, nonWlVars>>

\* start_session has returned: with True the session is registered and the
\* message loop begins; with False (table full, accept failed) the socket is
\* closed with 1013 and the finally block runs
WsStartSession(q, ok) ==
    /\ BagIn(q, wsconns)
    /\ q.pc = "starting"
    /\ IF ok
       THEN /\ wsconns' = (wsconns (-) SetToBag({q})) (+) SetToBag({[q EXCEPT !.pc = "session"]})
            /\ websocket_sessions_count' = websocket_sessions_count
       ELSE /\ wsconns' = (wsconns (-) SetToBag({q}))
                             (+) SetToBag({[q EXCEPT !.pc = "ended", !.code = 1013]})
            /\ websocket_sessions_count' = Released(q)
    /\ UNCHANGED nonWlVars

\* the message loop ends (peer disconnect, an exception, cancellation of the
\* handler) or the handler is cancelled while it awaits start_session: the
\* finally block stops the session and, in websocket_virtual_user, counts it
\* down
WsEnd(q, outcome) ==
    /\ BagIn(q, wsconns)
    /\ q.pc = "session" \/ (q.pc = "starting" /\ outcome = "cancelled")
    /\ wsconns' = (wsconns (-) SetToBag({q})) (+) SetToBag({[q EXCEPT !.pc = "ended"]})
    /\ websocket_sessions_count' = Released(q)
    /\ UNCHANGED nonWlVars

\* SimpleRateLimiter(): no session counted; no connection yet
WlInit ==
    /\ websocket_sessions_count = [ip \in IPs |-> 0]
    /\ wsconns = EmptyBag

(***************************************************************************)
(* The hourly download quota: SimpleRateLimiter.check_download_limit and   *)
(* track_download_request, called by rate_limiting_middleware (main.py).   *)
(* Sizes are counted in MiB; a download history is kept as the bag of its  *)
(* records (the code appends to a list and only filters, counts and sums). *)
(***************************************************************************)
\* requests that reach the middleware in one behaviour
MaxHourlyRequests == 17
\* requests made after a history drawn by WindowInit
MaxWindowRequests == 2
\* the clock of the main server stops here
MaxClock == 3600
\* size in MiB of a large chunk asked of /netflix-chunk (chunkSize is the
\* client's choice)
LargeChunkMiB == 3072
\* netflix_chunk_endpoint: request_data.get('chunkSize', 2 * 1024 * 1024)
DefaultChunkMiB == 2
\* SimpleRateLimiter.__init__: RATE_LIMIT_DOWNLOADS_PER_HOUR, default 16
downloads_per_hour == 16
\* SimpleRateLimiter.__init__: RATE_LIMIT_BANDWIDTH_GB_PER_HOUR, default 45
bandwidth_gb_per_hour == 45
\* self.bandwidth_gb_per_hour * 1024 * 1024 * 1024 bytes, in MiB
bandwidth_mib_per_hour == bandwidth_gb_per_hour * 1024
\* SimpleRateLimiter.__init__: RATE_LIMIT_CLEANUP_INTERVAL, default 600
cleanup_interval == 600
\* check_download_limit: hour_ago = current_time - 3600
HourSeconds == 3600

HourlyPaths == {"/download", "/netflix-chunk"}
ChunkSizes == {DefaultChunkMiB, LargeChunkMiB}

DownloadRecord(timestamp, bytes_downloaded) ==
    [timestamp |-> timestamp, bytes_downloaded |-> bytes_downloaded]

\* a limiter that looks at every record it holds
AllDownloads(ip_downloads, t) == ip_downloads

\* check_download_limit: [record for record in ip_downloads
\*                         if record.timestamp > hour_ago]
RecentDownloads(ip_downloads, t) ==
    [r \in {x \in BagToSet(ip_downloads) : x.timestamp > t - HourSeconds} |->
        ip_downloads[r]]

\* sum(record.bytes_downloaded for record in recent_downloads)
RECURSIVE TotalBytes(_, _)
TotalBytes(set, records) ==
    IF set = {} THEN 0
    ELSE LET r == CHOOSE x \in set : TRUE
         IN  r.bytes_downloaded * CopiesIn(r, records) + TotalBytes(set \ {r}, records)

\* check_download_limit after the cleanup: "tests" and "bandwidth" are the
\* two refusals, "ok" is (True, "")
HourlyDecision(history, ip, t) ==
    LET recent_downloads == RecentDownloads(history[ip], t)
    IN  IF BagCardinality(recent_downloads) >= downloads_per_hour THEN "tests"
        ELSE IF TotalBytes(BagToSet(recent_downloads), recent_downloads)
                    >= bandwidth_mib_per_hour
             THEN "bandwidth"
             ELSE "ok"

\* _cleanup_old_data: every history keeps the records with
\* record.timestamp > cutoff_time (an emptied history is deleted, which the
\* defaultdict reads as empty)
CleanupOldData(history, t) ==
    [ip \in IPs |->
        [r \in {x \in BagToSet(history[ip]) : x.timestamp > t - HourSeconds} |->
            history[ip][r]]]

\* _cleanup_if_needed
CleanupNeeded(t) == t - last_cleanup > cleanup_interval

\* track_download_request
TrackDownloadRequest(history, ip, t, bytes_downloaded) ==
    [history EXCEPT ![ip] = @ (+) SetToBag({DownloadRecord(t, bytes_downloaded)})]

\* rate_limiting_middleware for a GET /download or POST /netflix-chunk that
\* runs without overlapping another request of the quota: the quota is
\* checked (429 on refusal), the endpoint answers (inner_ok: with 200), and
\* the download is tracked if the answer is 200 and carries a
\* content-length, which the StreamingResponse of /download does not
HourlyRequest(ip, path, size, inner_ok) ==
    /\ budget > 0
    /\ budget' = budget - 1
    /\ LET cleaned == IF CleanupNeeded(current_time)
                      THEN CleanupOldData(download_history, current_time)
                      ELSE download_history
           allowed == HourlyDecision(cleaned, ip, current_time) = "ok"
       IN  /\ last_cleanup' = IF CleanupNeeded(current_time) THEN current_time
                               ELSE last_cleanup
           /\ download_history' =
                 IF allowed /\ inner_ok /\ path = "/netflix-chunk"
                 THEN TrackDownloadRequest(cleaned, ip, current_time, size)
                 ELSE cleaned
           /\ served' =
                 IF allowed /\ inner_ok /\ path = "/download"
                 THEN [served EXCEPT ![ip] = @ (+) SetToBag({current_time})]
                 ELSE served
    /\ UNCHANGED <<current_time, nonHlVars>>

\* d seconds pass
HourlyTick(d) ==
    /\ current_time + d <= MaxClock
    /\ current_time' = current_time + d
    /\ served' = [ip \in IPs |->
                    [t \in {x \in BagToSet(served[ip]) : x > current_time' - HourSeconds} |->
                        served[ip][t]]]
    /\ UNCHANGED <<download_history, last_cleanup, budget, nonHlVars>>

\* SimpleRateLimiter(): no record; the clients have made no request
HlInit ==
    /\ download_history = [ip \in IPs |-> EmptyBag]
    /\ last_cleanup = 0
    /\ current_time = 0
    /\ served = [ip \in IPs |-> EmptyBag]
    /\ budget = 0

(***************************************************************************)
(* POST /virtual-household/stop-user-sessions/{test_id}: stop_user_sessions *)
(* over session_manager.sessions of the process that serves it, whose       *)
(* session ids are the user_id of /ws/virtual-household/{user_id}.          *)
(***************************************************************************)
\* a session id: the text before the first "_", whether there is a "_", and
\* the text between the first and the second "_": digits (numeric, with
\* their value) or something else
SessionId(persona, underscore, numeric, ms) ==
    [persona |-> persona, underscore |-> underscore, numeric |-> numeric, ms |-> ms]
\* alex_1500, sarah_1999, alex_2000, alex_home and guest
StopIds ==
    {SessionId("alex", TRUE, TRUE, 1500), SessionId("sarah", TRUE, TRUE, 1999),
     SessionId("alex", TRUE, TRUE, 2000), SessionId("alex", TRUE, FALSE, 0),
     SessionId("guest", FALSE, FALSE, 0)}
TestIds == {"1", "2", "all"}

\* str(n) for the seconds of StopIds
Str(n) == <<"0", "1", "2">>[n + 1]

\* int(session_timestamp) raises ValueError
IntFails(id) == id.underscore /\ ~id.numeric

\* the scan: `'_' in session_id` and str(int(session_timestamp) // 1000) ==
\* test_id, or test_id.lower() == 'all'
SessionsToStop(table, test_id) ==
    {id \in DOMAIN table :
        \/ id.underscore /\ Str(id.ms \div 1000) = test_id
        \/ test_id = "all"}

\* start_session: user_profiles.get(user_id.split('_')[0].lower(),
\* user_profiles['computer'])
SessionProfile(id) == IF id.persona \in Personas THEN id.persona ELSE "computer"

\* websocket_virtual_user registers a session under the user_id of the URL,
\* with the profile start_session finds for it
HouseholdOpen(id) ==
    /\ id \notin DOMAIN household_sessions
    /\ household_sessions' = [i \in DOMAIN household_sessions \cup {id} |->
                                 IF i = id
                                 THEN [active |-> TRUE, profile |-> SessionProfile(id)]
                                 ELSE household_sessions[i]]
    /\ UNCHANGED <<stop_response, nonStVars>>

\* a stop_test message: session.active = False, the session stays registered
HouseholdStopTest(id) ==
    /\ id \in DOMAIN household_sessions
    /\ household_sessions[id].active
    /\ household_sessions' = [household_sessions EXCEPT ![id].active = FALSE]
    /\ UNCHANGED <<stop_response, nonStVars>>

\* the WebSocket ends: stop_session in the finally block of the handler
HouseholdClose(id) ==
    /\ id \in DOMAIN household_sessions
    /\ household_sessions' = Without(household_sessions, {id})
    /\ UNCHANGED <<stop_response, nonStVars>>

\* stop_user_sessions: the scan of all sessions, then stop_session for each
\* match (marked inactive and deleted) and the answer with their count; a
\* ValueError of the scan ends the handler with 500 before any stop
StopUserSessions(test_id) ==
    /\ IF \E id \in DOMAIN household_sessions : IntFails(id)
       THEN /\ household_sessions' = household_sessions
            /\ stop_response' = [status |-> 500, test_id |-> test_id, stopped_count |-> 0]
       ELSE LET sessions_to_stop == SessionsToStop(household_sessions, test_id)
            IN  /\ household_sessions' = Without(household_sessions, sessions_to_stop)
                /\ stop_response' = [status |-> 200, test_id |-> test_id,
                                      stopped_count |-> Cardinality(sessions_to_stop)]
    /\ UNCHANGED nonStVars

\* HighPerformanceSessionManager(): no session; no stop request answered
StInit ==
    /\ household_sessions = << >>
    /\ stop_response = [status |-> 0, test_id |-> "none", stopped_count |-> 0]

(***************************************************************************)
(* The download profile of the persona user_type in the main server and in *)
(* its worker process, and the TrafficSessions that hold it.               *)
(***************************************************************************)
\* sessions of the persona that one process may hold at a time
MaxTrafficSessions == 1
\* TrafficSessions constructed in one behaviour
MaxCreated == 2

\* update_computer_profile: MAX_COMPUTER_SPEED = 1000.0 (Mbps), in kbit/s
MAX_COMPUTER_SPEED == 1000000
Procs == {"main", "worker"}
\* the rates that profile updates carry, in kbit/s
UpdateRates == {0, 500000, 1000000, 2000000}
NoRequest == -1
\* user_id of a session of the persona: the process that holds it and the
\* part after "<user_type>_"
TrafficIds == [proc : Procs, n : 1..MaxTrafficSessions]

Min(a, b) == IF a <= b THEN a ELSE b

\* capped_speed = min(measured_speed, MAX_COMPUTER_SPEED)
CappedSpeed(measured_speed) == Min(measured_speed, MAX_COMPUTER_SPEED)

\* TrafficSession(user_id, websocket, profile, start_time) and __post_init__:
\* the counters at zero, burst_state in phase 'active' since the creation
TrafficSession(serial, t) ==
    [serial |-> serial, active |-> TRUE, server_sent_bytes |-> 0,
     phase |-> "active", phase_start_time |-> t, cycle_count |-> 0]

\* session.profile is the UserProfile object of user_profiles itself
\* (start_session passes the reference), so its download_mbps is the one of
\* the process that holds the session
SessionKbps(id) == user_profiles[id.proc]

NoWindow == [serial |-> 0, start |-> 0, sent |-> 0]

\* start_session: a new TrafficSession under user_id, in place of the one
\* registered under the same user_id if there is one
TrafficOpen(id) ==
    /\ created < MaxCreated
    /\ created' = created + 1
    /\ traffic_sessions' =
           [i \in DOMAIN traffic_sessions \cup {id} |->
               IF i = id THEN TrafficSession(created + 1, shape_now)
               ELSE traffic_sessions[i]]
    /\ UNCHANGED <<user_profiles, requested, shape_now, horizon, last_tick, window,
                   nonShVars>>

\* a stop_test message: session.active = False
TrafficStopTest(id) ==
    /\ id \in DOMAIN traffic_sessions
    /\ traffic_sessions[id].active
    /\ traffic_sessions' = [traffic_sessions EXCEPT ![id].active = FALSE]
    /\ UNCHANGED <<user_profiles, requested, created, shape_now, horizon, last_tick,
                   window, nonShVars>>

\* stop_session (the socket ended, or cleanup_inactive_sessions found the
\* session inactive): the session leaves the table
TrafficClose(id) ==
    /\ id \in DOMAIN traffic_sessions
    /\ traffic_sessions' = Without(traffic_sessions, {id})
    /\ UNCHANGED <<user_profiles, requested, created, shape_now, horizon, last_tick,
                   window, nonShVars>>

\* POST /virtual-household/adaptive/update-computer of the main server: the
\* capped speed goes to the main session manager (update_computer_profile
\* caps it once more and writes it to the profile and, through
\* session.profile, to the active sessions) and is sent to /update-profile
\* of the computer worker; a failure of that call is logged only
AdaptiveUpdate(measured_speed, relay_ok) ==
    /\ user_type = "computer"
    /\ IF measured_speed <= 0
       THEN UNCHANGED <<user_profiles, requested>>
       ELSE LET capped_speed == CappedSpeed(measured_speed)
            IN  /\ user_profiles' =
                       [p \in Procs |-> IF p = "main" THEN CappedSpeed(capped_speed)
                                        ELSE IF relay_ok THEN capped_speed
                                        ELSE user_profiles[p]]
                /\ requested' =
                       [p \in Procs |-> IF p = "main" \/ relay_ok THEN measured_speed
                                        ELSE requested[p]]
    /\ UNCHANGED <<traffic_sessions, created, shape_now, horizon, last_tick, window,
                   nonShVars>>

\* POST /update-profile of the worker with profile_updates {download_mbps:
\* value}: setattr on the profile of the worker (and on session.profile of
\* its active sessions, the same object); another user_type is turned down
UpdateProfile(target_user_type, value) ==
    /\ IF target_user_type # user_type
       THEN UNCHANGED <<user_profiles, requested>>
       ELSE /\ user_profiles' = [user_profiles EXCEPT !["worker"] = value]
            /\ requested' = [requested EXCEPT !["worker"] = value]
    /\ UNCHANGED <<traffic_sessions, created, shape_now, horizon, last_tick, window,
                   nonShVars>>

(***************************************************************************)
(* Shaping: the passes of background_update_loop of the worker over its    *)
(* sessions, generate_download_traffic_bulk for each of them.              *)
(***************************************************************************)
\* time for which a worker of any persona is followed, in ms
ShapeHorizonMs == 300
\* time for which the worker of the TwoPhase persona is followed, in ms
BurstHorizonMs == 6000
\* time by which a pass may outlast update_interval (sends that block, a
\* connection test that waits), in ms
SlowPassMs == 25

\* user_profiles['jake'].burst_pattern: burst_duration 1.0 s, in ms
burst_duration == 1000
\* pause_duration 4.0 s, in ms
pause_duration == 4000
\* burst_rate 25.0 Mbps, in kbit/s
burst_rate == 25000
\* pause_rate 0.0 Mbps
pause_rate == 0
\* generate_download_traffic_bulk: optimal_chunk_size = 1048576
optimal_chunk_size == 1048576

\* user_profiles[p].burst_pattern['type']
burst_type(p) == IF p = "jake" THEN "netflix_adaptive" ELSE "constant"

\* the send of chunk fail_after + 1 raises; NoFailure: none does
NoFailure == -1
FailPoints == {NoFailure, 0, 3}

\* background_update_loop: duration_ms=int(self.update_interval * 1000)
duration_ms(p) == update_interval(p)

\* get_current_effective_rate, netflix_adaptive: burst_state after the call
\* at time t
BurstAfter(s, t) ==
    IF s.phase = "active"
    THEN IF t - s.phase_start_time >= burst_duration
         THEN [s EXCEPT !.phase = "pause", !.phase_start_time = t, !.cycle_count = @ + 1]
         ELSE s
    ELSE IF t - s.phase_start_time >= pause_duration
         THEN [s EXCEPT !.phase = "active", !.phase_start_time = t]
         ELSE s

\* get_current_effective_rate(session, 'download') at time t, in kbit/s: the
\* profile's rate for a constant pattern, else the rate of the phase the
\* call leaves the session in
EffectiveRate(p, s, kbps, t) ==
    IF burst_type(p) = "constant" THEN kbps
    ELSE IF BurstAfter(s, t).phase = "active" THEN burst_rate ELSE pause_rate

\* a target that leaves the interval out
TargetBytesPerSecond(kbps, ms) == (kbps * 1000) \div 8
\* target_bytes = int((effective_download_mbps * 1_000_000 / 8) *
\* (duration_ms / 1000)), the rate in kbit/s
TargetBytes(kbps, ms) == (kbps * ms) \div 8

\* total_chunks of the streaming path
TotalChunks(target_bytes) == (target_bytes + optimal_chunk_size - 1) \div optimal_chunk_size

\* a failed send counted as if the whole target had been sent
DeliveredTarget(target_bytes, fail_after) ==
    IF target_bytes <= 0 THEN 0 ELSE target_bytes

\* the bytes generate_download_traffic_bulk adds to server_sent_bytes: none
\* for a target <= 0; the target when every send succeeds (one chunk of
\* target_bytes, or chunks of min(optimal_chunk_size, remaining)); the full
\* chunks sent before the send that raised
SendFails(target_bytes, fail_after) ==
    target_bytes > 0 /\ fail_after # NoFailure /\ fail_after < TotalChunks(target_bytes)
DeliveredBytes(target_bytes, fail_after) ==
    IF target_bytes <= 0 THEN 0
    ELSE IF SendFails(target_bytes, fail_after) THEN fail_after * optimal_chunk_size
    ELSE target_bytes

\* the frames send_bytes has delivered when generate_download_traffic_bulk
\* returns, as the loop of the streaming path sends them: chunks of
\* min(optimal_chunk_size, remaining) until nothing remains or a send raises
RECURSIVE StreamedChunks(_, _, _)
StreamedChunks(remaining, chunk_count, fail_after) ==
    IF remaining <= 0 \/ chunk_count = fail_after THEN << >>
    ELSE LET chunk_size == Min(optimal_chunk_size, remaining)
         IN  <<chunk_size>> \o StreamedChunks(remaining - chunk_size, chunk_count + 1,
                                              fail_after)
\* one frame of target_bytes when the target fits in one chunk
SentFrames(target_bytes, fail_after) ==
    IF target_bytes <= 0 THEN << >>
    ELSE IF target_bytes <= optimal_chunk_size
    THEN IF fail_after = 0 THEN << >> ELSE <<target_bytes>>
    ELSE StreamedChunks(target_bytes, 0, fail_after)

RECURSIVE SumOf(_)
SumOf(seq) == IF seq = << >> THEN 0 ELSE Head(seq) + SumOf(Tail(seq))

\* user_profiles: upload_mbps, in kbit/s
upload_kbps(p) ==
    CASE p = "alex" -> 750
      [] p = "sarah" -> 2500
      [] OTHER -> 100

\* request_upload_traffic_bulk: WARMUP_UPLOAD_CHUNK_SIZE
WARMUP_UPLOAD_CHUNK_SIZE == 1048576

\* background_update_loop after generate_download_traffic_bulk has returned
\* bytes_sent: request_upload_traffic_bulk is called only if bytes_sent > 0 or
\* session.profile.download_mbps == 0, and sends its frame only to an active
\* session and for a positive target; the frames it sends
UploadRequests(p, kbps, bytes_sent, active) ==
    LET target_bytes == TargetBytes(upload_kbps(p), duration_ms(p))
    IN  IF (bytes_sent > 0 \/ kbps = 0) /\ active /\ target_bytes > 0
        THEN <<[type |-> "real_upload_request", target_bytes |-> target_bytes,
                optimal_chunk_size |-> WARMUP_UPLOAD_CHUNK_SIZE]>>
        ELSE << >>

\* a counter that is overwritten
SentAssign(server_sent_bytes, n) == n
\* session.server_sent_bytes += n
SentAfter(server_sent_bytes, n) == server_sent_bytes + n

\* generate_download_traffic_bulk(session, duration_ms) at time t and the
\* upload request that follows it in the pass: the session after the calls
\* and what they did (the binary frames sent, the bytes added to the download
\* measurement window, the upload requests sent)
ShapedSession(p, s, kbps, t, fail_after) ==
    LET s1 == IF burst_type(p) = "constant" THEN s ELSE BurstAfter(s, t)
        rate == EffectiveRate(p, s, kbps, t)
        target_bytes == TargetBytes(rate, duration_ms(p))
        bytes == DeliveredBytes(target_bytes, fail_after)
        frames == SentFrames(target_bytes, fail_after)
        failed == SendFails(target_bytes, fail_after)
    IN  [session |-> [s1 EXCEPT !.server_sent_bytes = SentAfter(@, bytes),
                                !.active = ~failed],
         tick |-> [serial |-> s.serial, rate |-> rate, interval |-> update_interval(p),
                   bytes |-> bytes, frames |-> frames, window_bytes |-> SumOf(frames),
                   failed |-> failed, fail_after |-> fail_after,
                   upload_requests |-> UploadRequests(p, kbps, bytes, ~failed)]]

\* one pass of background_update_loop, d ms after the previous one:
\* cleanup_inactive_sessions removes the sessions that are not active (the
\* behaviours followed are shorter than max_duration and
\* inactivity_timeout), then every session left is shaped
ShapePass(d, fail) ==
    LET cleaned == {id \in DOMAIN traffic_sessions :
                        id.proc = "worker" /\ ~traffic_sessions[id].active}
        shaped == {id \in DOMAIN traffic_sessions \ cleaned : id.proc = "worker"}
        result(id) == ShapedSession(user_type, traffic_sessions[id], SessionKbps(id),
                                    shape_now + d, fail[id])
    IN  /\ shape_now + d <= horizon
        /\ shape_now' = shape_now + d
        /\ traffic_sessions' =
               [id \in DOMAIN traffic_sessions \ cleaned |->
                   IF id \in shaped THEN result(id).session ELSE traffic_sessions[id]]
        /\ last_tick' = [id \in shaped |-> result(id).tick]
        /\ UNCHANGED <<user_profiles, requested, created, horizon, window, nonShVars>>

\* the passes of the worker: update_interval apart, or later by SlowPassMs
PassPeriods(p) == {update_interval(p), update_interval(p) + SlowPassMs}
Passes(periods) ==
    \E d \in periods :
        \E fail \in [{id \in DOMAIN traffic_sessions : id.proc = "worker"} -> FailPoints] :
            ShapePass(d, fail)

\* an observer notes the time and server_sent_bytes of a session: the start
\* of a measurement window
WindowOpen(id) ==
    /\ window = NoWindow
    /\ id \in DOMAIN traffic_sessions
    /\ window' = [serial |-> traffic_sessions[id].serial, start |-> shape_now,
                  sent |-> traffic_sessions[id].server_sent_bytes]
    /\ UNCHANGED <<user_profiles, requested, traffic_sessions, created, shape_now, horizon,
                   last_tick, nonShVars>>

\* the session managers as constructed: the profile of user_profiles, no
\* update asked for, no session
ShInit ==
    /\ user_profiles = [p \in Procs |-> download_kbps(user_type)]
    /\ requested = [p \in Procs |-> NoRequest]
    /\ traffic_sessions = << >>
    /\ created = 0
    /\ shape_now = 0
    /\ horizon = 0
    /\ last_tick = << >>
    /\ window = NoWindow

(***************************************************************************)
(* PerUserLatencyTracker of one session: update_latency on every pong of   *)
(* the client (handle_pong).                                               *)
(***************************************************************************)
\* time for which the tracker is followed, in ms
MaxLatClock == 61000
\* pongs of the client in one behaviour
MaxPongs == 12

\* update_latency: the history keeps the last 60 seconds, in ms
history_seconds == 60000
\* update_latency: the baseline is set once ping_history holds 10 samples,
\* from the first 10
baseline_samples == 10
\* latency_ms that handle_pong computes from the timestamp of a pong, in ms
Latencies == {10, 300}
\* time between two pongs of the client, in ms
PongSteps == {1000, 50000}

RECURSIVE SumLatency(_, _)
\* sum(h['latency_ms'] for h in ping_history[:n])
SumLatency(history, n) ==
    IF n = 0 \/ history = << >> THEN 0
    ELSE Head(history).latency_ms + SumLatency(Tail(history), n - 1)

\* a baseline that is set whenever the history is long enough
EstablishesAlways(established, n) == n >= baseline_samples
\* not self.baseline_established and len(self.ping_history) >= 10
Establishes(established, n) == ~established /\ n >= baseline_samples

\* a classification whose 'moderate' band ends at 100 ms
SeverityNarrow(latency_increase) ==
    IF latency_increase < 100 THEN "none"
    ELSE IF latency_increase < 500 THEN "mild"
    ELSE IF latency_increase < 1000 THEN "moderate"
    ELSE "severe"

\* the classification of latency_increase, in tenths of a ms
Severity(latency_increase) ==
    IF latency_increase < 100 THEN "none"
    ELSE IF latency_increase < 500 THEN "mild"
    ELSE IF latency_increase < 2000 THEN "moderate"
    ELSE "severe"

\* PerUserLatencyTracker(user_id); baseline_latency and latency_increase are
\* kept in tenths of a ms (the mean of 10 samples of whole ms)
PerUserLatencyTracker ==
    [ping_history |-> << >>, baseline_latency |-> 0, baseline_established |-> FALSE,
     current_latency |-> 0, latency_increase |-> 0, bufferbloat_severity |-> "none",
     total_pings |-> 0, ping_sequence |-> 0]

\* update_latency(latency_ms, sequence_num) at time t (the minimum, maximum,
\* mean and jitter it also keeps are left out); sequence_num is << >> for
\* None and <<n>> for the number n
UpdateLatency(tr, latency_ms, t, sequence_num) ==
    LET appended == Append(tr.ping_history, [timestamp |-> t, latency_ms |-> latency_ms])
        cutoff_time == t - history_seconds
        history == SelectSeq(appended, LAMBDA h : h.timestamp > cutoff_time)
        establish == Establishes(tr.baseline_established, Len(history))
        baseline == IF establish THEN SumLatency(history, baseline_samples)
                    ELSE tr.baseline_latency
        established == tr.baseline_established \/ establish
        bloat == established /\ baseline > 0
        increase == IF bloat THEN 10 * latency_ms - baseline ELSE tr.latency_increase
    IN  [ping_history |-> history, baseline_latency |-> baseline,
         baseline_established |-> established, current_latency |-> latency_ms,
         latency_increase |-> increase,
         bufferbloat_severity |-> IF bloat THEN Severity(increase)
                                  ELSE tr.bufferbloat_severity,
         total_pings |-> tr.total_pings + 1,
         ping_sequence |-> IF sequence_num # << >> THEN sequence_num[1]
                           ELSE tr.ping_sequence]

\* handle_pong: a pong of the client without a 'sequence' field arrives d ms
\* after the previous one
HandlePong(d, latency_ms) ==
    /\ lat_now + d <= MaxLatClock
    /\ latency_tracker.total_pings < MaxPongs
    /\ lat_now' = lat_now + d
    /\ latency_tracker' = UpdateLatency(latency_tracker, latency_ms, lat_now + d, << >>)
    /\ UNCHANGED <<inbox, outbox, received, peer, nonMsVars>>

(***************************************************************************)
(* The message loop of one WebSocket of a worker                           *)
(* (_handle_websocket_messages and _handle_control_message of              *)
(* server/simple_user_process.py), next to the tasks of the session        *)
(* manager that send on the same socket.  The clock is lat_now.            *)
(***************************************************************************)
\* frames the client sends in one behaviour
MaxFrames == 2
\* sends of the server tasks other than the message loop in one behaviour
MaxServerSends == 1
\* the time for which the socket is followed, in ms
MaxLoopMs == 1

\* the sequence numbers a client puts in its pings, and its Date.now() when
\* it sends the ping with a given number
PingSequences == {1, 2}
ClientTime(sequence) == 6 + sequence

\* the JSON text frames of the client, and the ASGI disconnect message
Ping(sequence, timestamp) ==
    [type |-> "ping", sequence |-> sequence, timestamp |-> timestamp]
BarePing == [type |-> "ping"]
StopTest == [type |-> "stop_test"]
Disconnect == [type |-> "websocket.disconnect"]
ClientFrames ==
    {Ping(s, ClientTime(s)) : s \in PingSequences} \cup {BarePing, StopTest}

\* dict.get(key, default)
Get(data, key, default) == IF key \in DOMAIN data THEN data[key] ELSE default

\* a pong stamped with the time of the server in both time fields
PongResponseServerTime(data, t) ==
    [type |-> "pong", sequence |-> Get(data, "sequence", 0), timestamp |-> t,
     server_timestamp |-> t]

\* _handle_control_message, 'ping': the pong echoes the sequence and the
\* timestamp of the ping (0 and the time of the server when the ping has none)
PongResponse(data, t) ==
    [type |-> "pong", sequence |-> Get(data, "sequence", 0),
     timestamp |-> Get(data, "timestamp", t), server_timestamp |-> t]

\* start_session has returned True: the session is in the table and active,
\* the socket is accepted, the handler enters its message loop
Accepted ==
    [client_state |-> "CONNECTED", active |-> TRUE, registered |-> TRUE,
     handler |-> "top", client |-> "open", stopped |-> FALSE, sent |-> 0, sends |-> 0,
     endpoint |-> "worker", latency_task |-> "running"]

\* the message loop ends: the finally block calls stop_session, which deletes
\* the session if it is still in the table, and the handler returns (the
\* ASGI server then closes the socket if the client has not)
Returned(p) ==
    [p EXCEPT !.handler = "returned", !.active = FALSE, !.registered = FALSE,
              !.latency_task = "cancelled"]

\* the client sends a text frame
MsgClientSend(frame) ==
    /\ peer.client = "open"
    /\ peer.sent < MaxFrames
    /\ inbox' = Append(inbox, frame)
    /\ peer' = [peer EXCEPT !.sent = @ + 1]
    /\ UNCHANGED <<latency_tracker, lat_now, outbox, received, nonMsVars>>

\* the client closes the socket
MsgClientClose ==
    /\ peer.client = "open"
    /\ inbox' = Append(inbox, Disconnect)
    /\ peer' = [peer EXCEPT !.client = "closed"]
    /\ UNCHANGED <<latency_tracker, lat_now, outbox, received, nonMsVars>>

\* top of the message loop: it ends when user_id is no longer in the table or
\* the socket is not connected, otherwise it awaits websocket.receive()
MsgLoopTop ==
    /\ peer.handler = "top"
    /\ peer' = IF ~peer.registered \/ peer.client_state # "CONNECTED"
               THEN Returned(peer)
               ELSE [peer EXCEPT !.handler = "receive"]
    /\ UNCHANGED <<latency_tracker, lat_now, inbox, outbox, received, nonMsVars>>

\* websocket.receive() returns, or its deadline of one second passes with no
\* frame (the loop of a worker wraps it in asyncio.wait_for(..., 1.0); the
\* loop of the endpoint of the main server awaits it with no deadline and
\* handles the frames in the same way): a disconnect ends the loop; a ping is answered with a pong and a
\* stop_test marks the session inactive and is acknowledged (a send to a
\* client that has gone raises, ok = FALSE, and the loop goes on)
MsgLoopReceive(ok) ==
    /\ peer.handler = "receive"
    /\ IF inbox = << >>
       THEN /\ ok
            /\ peer.endpoint = "worker"
            /\ peer' = [peer EXCEPT !.handler = "top"]
            /\ UNCHANGED <<inbox, outbox, received>>
       ELSE LET data == Head(inbox)
            IN  /\ inbox' = Tail(inbox)
                /\ IF data.type = "websocket.disconnect"
                   THEN /\ ok
                        /\ peer' = Returned([peer EXCEPT !.client_state = "DISCONNECTED"])
                        /\ UNCHANGED <<outbox, received>>
                   ELSE /\ ok \/ peer.client = "closed"
                        /\ IF data.type = "ping"
                           THEN /\ outbox' = IF ok
                                             THEN Append(outbox, PongResponse(data, lat_now))
                                             ELSE outbox
                                /\ received' = Append(received, [data |-> data, answered |-> ok])
                                /\ peer' = [peer EXCEPT !.handler = "top"]
                           ELSE /\ outbox' = IF ok /\ peer.registered
                                             THEN Append(outbox, [type |-> "stop_test_ack"])
                                             ELSE outbox
                                /\ peer' = IF peer.registered
                                           THEN [peer EXCEPT !.handler = "top", !.active = FALSE,
                                                             !.stopped = TRUE]
                                           ELSE [peer EXCEPT !.handler = "top"]
                                /\ UNCHANGED received
    /\ UNCHANGED <<latency_tracker, lat_now, nonMsVars>>

\* start_latency_tracking: while the session is active a ping of the server
\* is sent on the socket
MsgLatencyPing ==
    /\ peer.registered /\ peer.active /\ peer.client_state = "CONNECTED"
    /\ peer.sends < MaxServerSends
    /\ outbox' = Append(outbox, [type |-> "ping", sequence |-> peer.sends + 1,
                                 timestamp |-> lat_now])
    /\ peer' = [peer EXCEPT !.sends = @ + 1]
    /\ UNCHANGED <<latency_tracker, lat_now, inbox, received, nonMsVars>>

\* background_update_loop, cleanup_inactive_sessions: a session that is
\* inactive or whose socket is not connected is stopped (stop_session sends
\* the final metrics on a connected socket and deletes the session); the
\* socket is not followed for long enough to expire
MsgCleanup ==
    /\ peer.registered
    /\ ~peer.active \/ peer.client_state # "CONNECTED"
    /\ outbox' = IF peer.client_state = "CONNECTED"
                 THEN Append(outbox, [type |-> "session_complete"]) ELSE outbox
    /\ peer' = [peer EXCEPT !.active = FALSE, !.registered = FALSE,
                            !.latency_task = "cancelled"]
    /\ UNCHANGED <<latency_tracker, lat_now, inbox, received, nonMsVars>>

\* POST /stop-session of a worker for the session: it is marked inactive and
\* stop_session cancels its latency task, sends the final metrics on a
\* connected socket and deletes it
MsgStopRequest ==
    /\ peer.endpoint = "worker"
    /\ peer.registered
    /\ outbox' = IF peer.client_state = "CONNECTED"
                 THEN Append(outbox, [type |-> "session_complete"]) ELSE outbox
    /\ peer' = [peer EXCEPT !.active = FALSE, !.registered = FALSE,
                            !.latency_task = "cancelled"]
    /\ UNCHANGED <<latency_tracker, lat_now, inbox, received, nonMsVars>>

\* background_update_loop, shaping step for the session: the download frame
\* and the upload request of the interval are sent
MsgShape ==
    /\ peer.registered /\ peer.active /\ peer.client_state = "CONNECTED"
    /\ peer.sends < MaxServerSends
    /\ outbox' = outbox \o <<[type |-> "bytes"], [type |-> "real_upload_request"]>>
    /\ peer' = [peer EXCEPT !.sends = @ + 1]
    /\ UNCHANGED <<latency_tracker, lat_now, inbox, received, nonMsVars>>

\* a millisecond passes
MsgElapse ==
    /\ lat_now < MaxLoopMs
    /\ lat_now' = lat_now + 1
    /\ UNCHANGED <<latency_tracker, inbox, outbox, received, peer, nonMsVars>>

(***************************************************************************)
(* POST /netflix-chunk (server/endpoints/download.py): the chunk is a      *)
(* sequence of bytes.                                                      *)
(***************************************************************************)
\* the requests followed: sequence, chunkSize, quality, sessionId (ASCII
\* codes) and flowId of the JSON body
ChunkSequences == {0, 1, 30, 45}
NetflixChunkSizes == {96, 128}
Qualities == {"HD", "1080p", "720p", "480p"}
SessionIds == {<<110, 102>>, <<97, 98, 99, 100, 101, 102, 103, 104, 105, 106, 107, 108,
                 109, 110, 111, 112, 113, 114>>}
FlowIds == {0, 12}
\* int(time.time() * 1000) % (2**32) at the time of the request
ChunkTimestamp == 4321

\* struct.pack('<I' / '<H', n): width bytes, the least significant first
RECURSIVE LittleEndian(_, _)
LittleEndian(n, width) ==
    IF width = 0 THEN << >> ELSE <<n % 256>> \o LittleEndian(n \div 256, width - 1)

\* struct.unpack of a little-endian unsigned field
RECURSIVE Unpack(_)
Unpack(bytes) == IF bytes = << >> THEN 0 ELSE Head(bytes) + 256 * Unpack(Tail(bytes))

\* str(n).encode('utf-8') for n >= 0
RECURSIVE Decimal(_)
Decimal(n) == IF n < 10 THEN <<48 + n>> ELSE Decimal(n \div 10) \o <<48 + (n % 10)>>

\* bytes[:n].ljust(n, b'\0')
Ljust(bytes, n) ==
    [i \in 1..n |-> IF i <= Len(bytes) THEN bytes[i] ELSE 0]

\* a ^ b on bit strings of the given width
RECURSIVE Xor(_, _, _)
Xor(a, b, width) ==
    IF width = 0 THEN 0
    ELSE ((a + b) % 2) + 2 * Xor(a \div 2, b \div 2, width - 1)

\* generate_netflix_chunk: {'HD': 3, '1080p': 2, '720p': 1, '480p': 0}.get(quality, 2)
QualityLevel(quality) ==
    CASE quality = "HD" -> 3
      [] quality = "1080p" -> 2
      [] quality = "720p" -> 1
      [] quality = "480p" -> 0
      [] OTHER -> 2

\* generate_netflix_chunk: the key frame flag
KeyFrame(sequence) == IF sequence % 30 = 0 THEN 1 ELSE 0

\* generate_netflix_chunk: struct.pack('<IIIIHBBBBHH', ...)
NetflixHeader(chunk_size, quality, sequence, timestamp_ms) ==
    LittleEndian(sequence, 4) \o LittleEndian(timestamp_ms, 4)
       \o LittleEndian(chunk_size, 4) \o LittleEndian(0, 4) \o LittleEndian(0, 2)
       \o <<KeyFrame(sequence), QualityLevel(quality), 1, 0>>
       \o LittleEndian(0, 2) \o LittleEndian(0, 2)

\* generate_netflix_chunk: the simulated video data, byte i (from 0) of the
\* filling: the four words 0x12345678, 0x87654321, 0xABCDEF00, 0x00FEDCBA in
\* turn for a key frame, the word 0x11111111 ^ (sequence & 0xFFFF) otherwise
PatternByte(sequence, i) ==
    IF sequence % 30 = 0
    THEN LET patterns == <<<<120, 86, 52, 18>>, <<33, 67, 101, 135>>,
                           <<0, 239, 205, 171>>, <<186, 220, 254, 0>>>>
         IN  patterns[((i \div 4) % 4) + 1][(i % 4) + 1]
    ELSE LET low == sequence % 65536
         IN  CASE i % 4 = 0 -> Xor(17, low % 256, 8)
               [] i % 4 = 1 -> Xor(17, low \div 256, 8)
               [] OTHER -> 17

\* generate_netflix_chunk(chunk_size, quality, sequence, request_data)
generate_netflix_chunk(chunk_size, quality, sequence, request_data, timestamp_ms) ==
    LET header == NetflixHeader(chunk_size, quality, sequence, timestamp_ms)
        session_id == Ljust(request_data.sessionId, 16)
        flow_id == Ljust(Decimal(request_data.flowId), 16)
        chunk_data == header \o session_id \o flow_id
        remaining_size == chunk_size - Len(chunk_data)
        filled == IF remaining_size > 0
                  THEN chunk_data \o [i \in 1..remaining_size |->
                                         PatternByte(sequence, i - 1)]
                  ELSE chunk_data
    IN  SubSeq(filled, 1, Min(chunk_size, Len(filled)))

(***************************************************************************)
(* HighPerformanceSessionManager.is_session_expired, on the fields of the  *)
(* session it reads (times in ms, the rate of session.profile in kbit/s).  *)
(***************************************************************************)
\* is_session_expired: max_duration for the rate of the session's profile
SessionMaxDuration(kbps) == IF kbps > 100000 THEN 45000 ELSE 60000

is_session_expired(session, t) ==
    LET inactive_duration == t - session.last_activity
        total_duration == t - session.start_time
    IN  IF inactive_duration > inactivity_timeout THEN TRUE
        ELSE IF total_duration > SessionMaxDuration(session.download_kbps) THEN TRUE
        ELSE session.connection_test_failures >= max_connection_failures

\* the sessions and the times at which the check is followed: profiles of
\* alex, jake, a computer measured at 100 Mb/s and the default computer
ExpiryRates == {1500, 25000, 100000, 1000000}
ExpiryActivity == {0, 20000, 40000}
ExpiryTimes == {30000, 30001, 45000, 45001, 50000, 60000, 60001}

\* cleanup_inactive_sessions asks whether the session has expired
ExpiryCheck ==
    /\ call.fn = "is_session_expired"
    /\ ~call.returned
    /\ call' = [call EXCEPT !.returned = TRUE,
                              !.result = is_session_expired(call.session, call.time)]
    /\ UNCHANGED nonFnVars

NoCall == [fn |-> "none"]

\* netflix_chunk_endpoint as main.py creates it (burst_mode = False): the
\* chunk of the requested size, quality and sequence is the body of the
\* answer (check_download_limit admits the request and the finally block
\* releases the connection again)
NetflixChunkEndpoint ==
    /\ call.fn = "netflix_chunk"
    /\ call.status = 0
    /\ LET request_data == call.request
       IN  call' = [call EXCEPT
                      !.status = 200,
                      !.content = generate_netflix_chunk(request_data.chunkSize,
                                     request_data.quality, request_data.sequence,
                                     request_data, ChunkTimestamp)]
    /\ UNCHANGED nonFnVars

\* no call is followed
\* start_latency_tracking has sent no ping yet
PgInit == pings = << >>

\* no background loop task has been cancelled
RcInit == cancelled = 0

FnInit == call = NoCall

\* the tracker of a session that has just started
MsInit ==
    /\ latency_tracker = PerUserLatencyTracker
    /\ lat_now = 0
    /\ inbox = << >>
    /\ outbox = << >>
    /\ received = << >>
    /\ peer = Accepted

\* RateLimiter(): no tracker; no request has been served
RlInit ==
    /\ connections = << >>
    /\ inflight = EmptyBag
    /\ last = NoReq

\* UserProcess(user_type, port) and its session manager: no session, the
\* background loop not started
WkInit ==
    /\ now = 0
    /\ ws = [w \in Sockets |-> NoSocket]
    /\ sessions = << >>
    /\ others = 0
    /\ running = FALSE
    /\ loop = LoopStopped

\* every part of the servers but the call that is followed
RestInit ==
    RlInit /\ user_type = "alex" /\ WkInit /\ PmInit /\ WlInit /\ HlInit /\ StInit /\ ShInit /\ MsInit /\ RcInit /\ PgInit

Init == RestInit /\ FnInit

Next ==
    \/ \E c \in Clients, elapsed \in BOOLEAN : DownloadEndpoint(c.ip, c.central, elapsed)
    \/ \E q \in BagToSet(inflight) : DownloadStreamEnd(q)
    \/ \E c \in Clients : NetflixArrive(c.ip, c.central)
    \/ \E q \in BagToSet(inflight), o \in Outcomes, elapsed \in BOOLEAN :
           NetflixFinish(q, o, elapsed)
    \/ \E c \in Clients : UploadArrive(c.ip, c.central)
    \/ \E q \in BagToSet(inflight), elapsed \in BOOLEAN : UploadChunk(q, elapsed)
    \/ \E q \in BagToSet(inflight), o \in Outcomes, elapsed \in BOOLEAN :
           UploadFinish(q, o, elapsed)

Spec == Init /\ [][Next]_vars

\* a worker that holds BaseSessions sessions of sockets that stay open, its
\* background loop asleep, in the milliseconds in which new connections arrive
WorkerInit ==
    /\ RlInit
    /\ PmInit
    /\ WlInit
    /\ HlInit
    /\ StInit
    /\ user_type \in WorkerTypes
    /\ ShInit /\ MsInit /\ RcInit /\ PgInit /\ FnInit
    /\ now = 0
    /\ ws = [w \in Sockets |-> NoSocket]
    /\ sessions = << >>
    /\ others = BaseSessions
    /\ running = TRUE
    /\ loop = [LoopStopped EXCEPT !.pc = "sleep", !.wake = update_interval(user_type)]

WorkerNext ==
    \/ \E w \in Sockets : WsConnect(w)
    \/ \E w \in Sockets, ok \in BOOLEAN : WsAccept(w, ok)
    \/ \E w \in Sockets : WsRefuse(w)
    \/ \E w \in Sockets : WsClose(w)
    \/ Tick

SpecWorker == WorkerInit /\ [][WorkerNext]_vars

SchedNext ==
    \/ \E w \in 1..MaxSchedSockets : WsConnect(w)
    \/ \E w \in 1..MaxSchedSockets, ok \in BOOLEAN : WsAccept(w, ok)
    \/ \E w \in 1..MaxSchedSockets : WsRefuse(w)
    \/ \E w \in 1..MaxSchedSockets : WsClose(w)
    \/ SchedCleanup
    \/ \E outcome \in {"ok", "error", "timeout"} : SchedValidate(outcome)
    \/ \E ok \in BOOLEAN, stalled \in BOOLEAN : SchedShape(ok, stalled)
    \/ SchedWake

\* a fresh worker of either kind of persona: connections arrive, the
\* background loop runs
SchedInit ==
    RlInit /\ user_type \in WorkerTypes /\ WkInit /\ PmInit /\ WlInit /\ HlInit /\ StInit /\ ShInit /\ MsInit /\ RcInit /\ PgInit /\ FnInit

SpecSched == SchedInit /\ [][SchedNext]_vars

SupCoreNext ==
    \/ StartAllBegin
    \/ StartAllStep
    \/ \E q \in Personas : \E k \in 1..Len(procs[q]) : Die(q, k)
    \/ MonWake
    \/ \E health_ok \in BOOLEAN, graceful \in BOOLEAN : MonCheck(health_ok, graceful)
    \/ MonDelayDone
    \/ MonStartCheck
    \/ StopBegin
    \/ StopFinish

\* the supervisor of the main server, from its construction to its shutdown
SpecSup == Init /\ [][SupCoreNext]_vars

\* the event loop resumes the monitor task whenever its sleep has ended
SpecSupFair ==
    /\ Init
    /\ [][SupCoreNext]_vars
    /\ WF_vars(MonWake)
    /\ WF_vars(\E health_ok \in BOOLEAN, graceful \in BOOLEAN : MonCheck(health_ok, graceful))
    /\ WF_vars(MonDelayDone)
    /\ WF_vars(MonStartCheck)

LookupNext ==
    \/ SupCoreNext
    \/ \E user_id \in LookupIds : Lookup(user_id)

\* the supervisor and the lookup endpoint of the main server
SpecLookup == Init /\ [][LookupNext]_vars

WsLimitNext ==
    \/ \E ip \in IPs : MainWsConnect(ip)
    \/ \E ip \in IPs : WorkerWsConnect(ip)
    \/ \E q \in BagToSet(wsconns), ok \in BOOLEAN : WsStartSession(q, ok)
    \/ \E q \in BagToSet(wsconns), outcome \in WsOutcomes : WsEnd(q, outcome)

\* WebSocket connections to the main server and to a worker, and the
\* limiter of the main server
SpecWsLimit == Init /\ [][WsLimitNext]_vars

\* the main server from its start: MaxHourlyRequests requests arrive one
\* after the other (chunks of the default size), an hour may pass
QuotaInit ==
    /\ RlInit /\ user_type = "alex" /\ WkInit /\ PmInit /\ WlInit /\ StInit /\ ShInit /\ MsInit /\ RcInit /\ PgInit /\ FnInit
    /\ download_history = [ip \in IPs |-> EmptyBag]
    /\ last_cleanup = 0
    /\ current_time = 0
    /\ served = [ip \in IPs |-> EmptyBag]
    /\ budget = MaxHourlyRequests

QuotaNext ==
    \/ \E ip \in IPs, path \in HourlyPaths, inner_ok \in BOOLEAN :
           HourlyRequest(ip, path, DefaultChunkMiB, inner_ok)
    \/ HourlyTick(HourSeconds)

SpecQuota == QuotaInit /\ [][QuotaNext]_vars

\* the main server after one client has fetched n chunks of one size in the
\* second the limiter was created; then time passes in steps of 10 and 50
\* minutes and MaxWindowRequests more requests arrive
WindowInit ==
    /\ RlInit /\ user_type = "alex" /\ WkInit /\ PmInit /\ WlInit /\ StInit /\ ShInit /\ MsInit /\ RcInit /\ PgInit /\ FnInit
    /\ \E n \in 0..downloads_per_hour, size \in ChunkSizes :
           download_history =
               [ip \in IPs |-> IF ip = "ip1" /\ n > 0
                               THEN [r \in {DownloadRecord(0, size)} |-> n]
                               ELSE EmptyBag]
    /\ last_cleanup = 0
    /\ current_time = 0
    /\ served = [ip \in IPs |-> EmptyBag]
    /\ budget = MaxWindowRequests

WindowSteps == {600, 3000}

WindowNext ==
    \/ \E ip \in IPs, path \in HourlyPaths, size \in ChunkSizes, inner_ok \in BOOLEAN :
           HourlyRequest(ip, path, size, inner_ok)
    \/ \E d \in WindowSteps : HourlyTick(d)

SpecWindow == WindowInit /\ [][WindowNext]_vars

StopNext ==
    \/ \E id \in StopIds : HouseholdOpen(id)
    \/ \E id \in StopIds : HouseholdStopTest(id)
    \/ \E id \in StopIds : HouseholdClose(id)
    \/ \E test_id \in TestIds : StopUserSessions(test_id)

\* the sessions of one process and its test-stop endpoint
SpecStop == Init /\ [][StopNext]_vars

ProfileInit ==
    RlInit /\ user_type = "computer" /\ WkInit /\ PmInit /\ WlInit /\ HlInit /\ StInit /\ ShInit /\ MsInit /\ RcInit /\ PgInit /\ FnInit

ProfileNext ==
    \/ \E id \in TrafficIds : TrafficOpen(id)
    \/ \E id \in TrafficIds : TrafficStopTest(id)
    \/ \E id \in TrafficIds : TrafficClose(id)
    \/ \E measured_speed \in UpdateRates, relay_ok \in BOOLEAN :
           AdaptiveUpdate(measured_speed, relay_ok)
    \/ \E target_user_type \in {"computer", "alex"}, value \in UpdateRates :
           UpdateProfile(target_user_type, value)

\* the computer profile of the main server and of the computer worker, their
\* sessions and the two ways to update the profile
SpecProfile == ProfileInit /\ [][ProfileNext]_vars

WorkerIds == {id \in TrafficIds : id.proc = "worker"}

\* ShInit of a worker followed up to the time h
ShapingInit(types, h) ==
    /\ RlInit /\ WkInit /\ PmInit /\ WlInit /\ HlInit /\ StInit /\ MsInit /\ RcInit /\ PgInit /\ FnInit
    /\ user_type \in types
    /\ user_profiles = [p \in Procs |-> download_kbps(user_type)]
    /\ requested = [p \in Procs |-> NoRequest]
    /\ traffic_sessions = << >>
    /\ created = 0
    /\ shape_now = 0
    /\ horizon = h
    /\ last_tick = << >>
    /\ window = NoWindow

ShapeInit == ShapingInit({"alex", "jake", "computer"}, ShapeHorizonMs)

ShapeNext ==
    \/ \E id \in WorkerIds : TrafficOpen(id)
    \/ \E id \in WorkerIds : TrafficStopTest(id)
    \/ \E id \in WorkerIds : TrafficClose(id)
    \/ \E value \in UpdateRates : UpdateProfile(user_type, value)
    \/ Passes(PassPeriods(user_type))

\* a worker of one persona: sessions come and go, the profile is updated,
\* the background loop shapes
SpecShape == ShapeInit /\ [][ShapeNext]_vars

BurstInit == ShapingInit({"jake"}, BurstHorizonMs)

BurstNext ==
    \/ \E id \in WorkerIds : shape_now = 0 /\ created = 0 /\ TrafficOpen(id)
    \/ \E id \in WorkerIds : TrafficStopTest(id)
    \/ \E id \in WorkerIds : WindowOpen(id)
    \/ Passes({update_interval(user_type)})

\* the worker of the TwoPhase persona with the session it gets at its start,
\* its passes exactly update_interval apart, and an observer of the session
SpecBurst == BurstInit /\ [][BurstNext]_vars

LatencyNext == \E d \in PongSteps, latency_ms \in Latencies : HandlePong(d, latency_ms)

\* one session and the pongs of its client
SpecLatency == Init /\ [][LatencyNext]_vars

(***************************************************************************)
(* Claims about the per-IP connection limiter (specification Spec).        *)
(***************************************************************************)
\* the /download streams of limited (non central-server) requests of one IP
\* whose body is still being streamed
DownloadStreams(ip) == CopiesIn(InFlight("download", ip, FALSE, 0, 1), inflight)

\* C1: for every client IP the number of concurrent /download streams
\* (admitted by the download acquire, body still being streamed) is at most
\* MAX_DOWNLOAD_CONNECTIONS at every instant.
C1_ConcurrentStreamsBounded ==
    \A ip \in IPs : DownloadStreams(ip) <= MAX_DOWNLOAD_CONNECTIONS

\* C2: a request whose acquire succeeded performs exactly one release, and
\* performs it when its work has ended (no request still in flight has
\* released its slot); a request rejected with 429 performs no release.
C2_ReleaseOnceWhenWorkEnded ==
    /\ \A q \in BagToSet(inflight) : q.releases = 0
    /\ last.acquired => last.releases = 1
    /\ last.status = 429 => last.releases = 0

(***************************************************************************)
(* Claims about the worker's session table (specification SpecWorker).     *)
(***************************************************************************)
\* C3: the size of a worker's session table never exceeds its capacity
\* max_users, under any interleaving of concurrent connections.
C3_TableWithinCapacity == SessionCount <= max_users

\* C4: concurrently open WebSockets never share a session id, each open
\* socket's entry in the table is its own (not overwritten by another
\* socket), and ending one socket does not remove another's entry.
C4_OneSessionPerSocket ==
    /\ \A w1, w2 \in Sockets :
           (w1 # w2 /\ ws[w1].pc = "open" /\ ws[w2].pc = "open")
               => ws[w1].user_id # ws[w2].user_id
    /\ \A w \in Sockets :
           ws[w].pc = "open"
               => /\ ws[w].user_id \in DOMAIN sessions
                  /\ sessions[ws[w].user_id].owner = w

(***************************************************************************)
(* Claims about the background loop (specification SpecSched).             *)
(***************************************************************************)
\* C5: the time between a session's creation and its removal from the
\* table is at most the maximum session duration plus one scheduler tick:
\* no session in the table is older than that.
C5_RemovedWithinDurationPlusTick ==
    \A i \in DOMAIN sessions :
        now - sessions[i].start_time
            <= max_duration(user_type) + update_interval(user_type)

\* the session was active, on a connected socket and not expired when the
\* pass of the loop that is under way started
EligibleAtStart(i) ==
    /\ sessions[i].active
    /\ ws[sessions[i].owner].pc = "open"
    /\ sessions[i].start_time <= loop.start
    /\ loop.start - sessions[i].start_time <= max_duration(user_type)
    /\ sessions[i].connection_test_failures < max_connection_failures

\* C24: a pass of the loop tests and shapes only sessions that were active,
\* connected and not expired when it started (cleanup comes first and hands
\* exactly those on to the connection test), and it shapes only sessions that
\* have passed the connection test of the pass
C24_OnlyEligibleSessionsShaped ==
    /\ [](loop.pc = "validate" =>
             \A i \in loop.todo \cap DOMAIN sessions :
                 sessions[i].active =>
                    /\ EligibleAtStart(i)
                    /\ loop.start - sessions[i].last_activity <= inactivity_timeout)
    /\ [](loop.pc = "shape" =>
             \A i \in loop.todo \cap DOMAIN sessions :
                 sessions[i].active =>
                    /\ EligibleAtStart(i)
                    /\ i \in loop.validated
                    /\ sessions[i].connection_test_failures = 0
                    /\ sessions[i].last_activity >= loop.start)
    /\ [][loop.pc = "cleanup" /\ loop'.pc = "validate" =>
             loop'.todo = {i \in DOMAIN sessions :
                              /\ sessions[i].active
                              /\ ws[sessions[i].owner].pc = "open"
                              /\ now - sessions[i].last_activity <= inactivity_timeout
                              /\ now - sessions[i].start_time <= max_duration(user_type)
                              /\ sessions[i].connection_test_failures
                                    < max_connection_failures}]_vars

\* a pass is about to shape a session that is older than inactivity_timeout
\* and has passed the connection test of the pass
C24_OldSessionShaped ==
    /\ loop.pc = "shape"
    /\ \E i \in loop.todo \cap DOMAIN sessions :
          /\ sessions[i].active
          /\ sessions[i].last_activity >= loop.start
          /\ loop.start - sessions[i].start_time > inactivity_timeout

\* C26: a failed connection test adds one to connection_test_failures and a
\* successful one sets it to 0 and refreshes last_activity; a session with
\* one or two failures, still within its time limits and on an open socket,
\* stays in the table through the cleanup of the next pass
C26_RemovedOnlyAfterThreeFailures ==
    [][/\ \A i \in DOMAIN sessions \cap DOMAIN sessions' :
             sessions'[i].connection_test_failures # sessions[i].connection_test_failures
                => \/ sessions'[i].connection_test_failures
                         = sessions[i].connection_test_failures + 1
                   \/ /\ sessions'[i].connection_test_failures = 0
                      /\ sessions'[i].last_activity = now
       /\ \A i \in DOMAIN sessions :
             /\ loop.pc = "cleanup"
             /\ loop'.pc # "cleanup"
             /\ sessions[i].connection_test_failures \in 1..(max_connection_failures - 1)
             /\ ws[sessions[i].owner].pc = "open"
             /\ now - sessions[i].last_activity <= inactivity_timeout
             /\ now - sessions[i].start_time <= max_duration(user_type)
             => i \in DOMAIN sessions']_vars

(***************************************************************************)
(* Claims about the supervisor (specifications SpecSup, SpecSupFair and    *)
(* SpecLookup).                                                            *)
(***************************************************************************)
\* the processes of a persona that have not been collected (alive, or exited
\* and not yet joined)
Uncollected(q) == {k \in 1..Len(procs[q]) : procs[q][k] # "reaped"}

\* C6: each persona has at most one live worker process spawned by the
\* supervisor at any instant, and a replacement is started only after the
\* previous process has terminated and been joined: at no instant does a
\* persona have two processes that are not yet collected.
C6_OneLiveWorkerPerPersona ==
    \A q \in Personas : Cardinality(Uncollected(q)) <= 1

\* a replacement runs and is stored, its predecessor collected
C6_ReplacementRuns ==
    \E q \in Personas :
        /\ Len(procs[q]) >= 2
        /\ q \in DOMAIN processes
        /\ processes[q].process = Newest(q)
        /\ IsAlive(q, Newest(q))
        /\ procs[q][1] = "reaped"

\* C7: for each persona the supervisor performs at most
\* max_restart_attempts restarts over its lifetime.
C7_AtMostThreeRestarts ==
    \A q \in Personas : total_restarts[q] <= max_restart_attempts

\* the stored worker of a persona is alive and healthy on the persona's port
Serving(q) ==
    /\ q \in DOMAIN processes
    /\ IsAlive(q, processes[q].process)
    /\ processes[q].is_healthy
    /\ processes[q].port = user_ports(q)

\* C8: if the stored worker of a persona is dead while the supervisor runs
\* and the persona has restarts left, then eventually the persona has a live
\* healthy worker on its port again (or the supervisor has been shut down).
C8_DeadWorkerRestarted ==
    \A q \in Personas :
        (/\ pm_running
         /\ q \in DOMAIN processes
         /\ ~IsAlive(q, processes[q].process)
         /\ processes[q].restart_count < max_restart_attempts)
            ~> (Serving(q) \/ ~pm_running)

\* a persona whose worker died has been restarted and serves again
C8_RestartedAndServing ==
    \E q \in Personas : total_restarts[q] >= 1 /\ pm_running /\ Serving(q)

\* the personas the supervisor records as registered and healthy
HealthyPersonas == {q \in Personas : q \in DOMAIN processes /\ processes[q].is_healthy}

\* C9: the lookup of a persona answers redirect=true with the persona's
\* port if and only if the supervisor records the persona's worker as
\* registered and healthy; otherwise it answers 503 with the list of the
\* healthy personas.
C9_LookupAnswer ==
    [][\A u \in Personas :
          Lookup(u) =>
             IF u \in HealthyPersonas
             THEN response'.redirect /\ response'.port = user_ports(u)
             ELSE /\ ~response'.redirect
                  /\ response'.status = 503
                  /\ response'.available_processes = HealthyPersonas]_vars

\* C10: when stop_all_processes has returned, no worker process spawned by
\* the supervisor is alive.
C10_NoWorkerAliveAfterStop ==
    stopper = "done" => \A q \in Personas : \A k \in 1..Len(procs[q]) : ~IsAlive(q, k)

\* C11: for every client IP the count of the WebSocket limiter never exceeds
\* the per-IP limit, and a WebSocket attempted while the count of its IP is at
\* the limit is closed with code 1008 before any session is created, with
\* the count left unchanged
WsAttempt(ip, endpoint) ==
    IF endpoint = "main" THEN MainWsConnect(ip) ELSE WorkerWsConnect(ip)
C11_LimitedWebSocketRefused ==
    /\ [](\A ip \in IPs : websocket_sessions_count[ip] <= websocket_sessions)
    /\ [][\A ip \in IPs, endpoint \in WsEndpoints :
             WsAttempt(ip, endpoint) /\ websocket_sessions_count[ip] >= websocket_sessions
             => /\ wsconns' = wsconns (+) SetToBag({WsConn("ended", ip, endpoint, FALSE, 1008)})
                /\ websocket_sessions_count' = websocket_sessions_count]_vars

\* C12: the count of an IP is the number of its connections that have
\* counted themselves and have not ended: every such connection counts the
\* IP down exactly once when it ends, a connection that never counted
\* (refused with 1008, or opened on a worker) never does, and the count is 0
\* once all connections of the IP have ended
RECURSIVE CopiesOf(_, _)
CopiesOf(set, bag) ==
    IF set = {} THEN 0
    ELSE LET q == CHOOSE x \in set : TRUE
         IN  CopiesIn(q, bag) + CopiesOf(set \ {q}, bag)
HoldingCount(ip) ==
    CopiesOf({q \in BagToSet(wsconns) : q.ip = ip /\ q.counted /\ q.pc # "ended"}, wsconns)
C12_CountIsOpenCountedSessions ==
    \A ip \in IPs : websocket_sessions_count[ip] = HoldingCount(ip)
\* witness: on one IP a counted session has ended, one connection was refused
\* with 1008 and one with 1013, all have ended and the count is back at 0
C12_AllEndedCountZero ==
    \E ip \in IPs :
        /\ \A q \in BagToSet(wsconns) : q.ip = ip => q.pc = "ended"
        /\ BagIn(WsConn("ended", ip, "main", TRUE, 0), wsconns)
        /\ BagIn(WsConn("ended", ip, "main", TRUE, 1013), wsconns)
        /\ BagIn(WsConn("ended", ip, "main", FALSE, 1008), wsconns)
        /\ websocket_sessions_count[ip] = 0

\* C13: an IP that has been served 16 /download tests within the rolling
\* hour is refused the 17th, so that no IP is served more than 16 in an
\* hour, while a /download of an unrelated IP, with nothing on its record, is
\* admitted in the same interval
C13_SeventeenthDownloadRefused ==
    /\ [](\A ip \in IPs : BagCardinality(served[ip]) <= downloads_per_hour)
    /\ [][\A ip \in IPs :
             /\ HourlyRequest(ip, "/download", DefaultChunkMiB, TRUE)
             /\ download_history[ip] = EmptyBag
             /\ served[ip] = EmptyBag
             => served'[ip] # served[ip]]_vars

\* C14: the decision of the hourly limiter for an IP is the decision it
\* takes on the records of the last hour alone: records older than an hour
\* change neither check, before and after the cleanup has removed them
WithinLastHour(history, t) ==
    [ip \in IPs |->
        [r \in {x \in BagToSet(history[ip]) : ~(x.timestamp <= t - HourSeconds)} |->
            history[ip][r]]]
C14_OnlyLastHourDecides ==
    \A ip \in IPs :
        /\ HourlyDecision(download_history, ip, current_time)
               = HourlyDecision(WithinLastHour(download_history, current_time), ip, current_time)
        /\ HourlyDecision(CleanupOldData(download_history, current_time), ip, current_time)
               = HourlyDecision(download_history, ip, current_time)
\* witness: an IP holds 16 or more records older than an hour, which no
\* cleanup has removed, and has been admitted since: its newest record is of
\* this instant
C14_AdmittedDespiteOldRecords ==
    \E ip \in IPs :
        /\ CopiesOf({r \in BagToSet(download_history[ip]) :
                         r.timestamp <= current_time - HourSeconds},
                    download_history[ip]) >= downloads_per_hour
        /\ \E r \in BagToSet(download_history[ip]) : r.timestamp = current_time

\* C15: stop-user-sessions/<test_id> deactivates exactly the sessions whose
\* id is <persona>_<ms> with floor(ms/1000) = test_id (every session for
\* "all"), answers with their count, and leaves every other session
\* registered and as active as it was
StopMatches(id, test_id) ==
    \/ test_id = "all"
    \/ id.underscore /\ id.numeric /\ Decimal(id.ms \div 1000) = test_id
C15_StopsExactlyTheMatches ==
    [][\A test_id \in TestIds :
          StopUserSessions(test_id)
          => LET matched == {id \in DOMAIN household_sessions : StopMatches(id, test_id)}
             IN  /\ \A id \in matched :
                        \/ id \notin DOMAIN household_sessions'
                        \/ ~household_sessions'[id].active
                 /\ stop_response'.stopped_count = Cardinality(matched)
                 /\ \A id \in DOMAIN household_sessions \ matched :
                        /\ id \in DOMAIN household_sessions'
                        /\ household_sessions'[id] = household_sessions[id]]_vars

\* C17: a WebSocket opened for a persona key that is none of the four
\* supported personas is refused: no session, with any profile, is ever
\* registered for it.
C17_UnsupportedPersonaGetsNoSession ==
    \A id \in DOMAIN household_sessions : id.persona \in Personas

\* C16: after any sequence of profile updates of the bulk persona, through
\* the adaptive update of the main server or /update-profile of the worker,
\* the download rate of the persona default and of every live session of a
\* process is the rate last requested there, clamped to MAX_COMPUTER_SPEED;
\* and the same update applied a second time changes nothing.
C16_ProfileIsClampedRequest ==
    /\ [](\A p \in Procs :
              requested[p] # NoRequest =>
                  /\ user_profiles[p] = Min(requested[p], MAX_COMPUTER_SPEED)
                  /\ \A id \in DOMAIN traffic_sessions :
                         id.proc = p /\ traffic_sessions[id].active =>
                             SessionKbps(id) = Min(requested[p], MAX_COMPUTER_SPEED))
    /\ [][\A value \in UpdateRates :
              UpdateProfile(user_type, value) /\ requested["worker"] = value =>
                  user_profiles' = user_profiles]_vars

(***************************************************************************)
(* Claims about shaping (specifications SpecShape and SpecBurst).          *)
(***************************************************************************)
\* C18: server_sent_bytes of a session never decreases as long as the session
\* lives: no pass of the background loop, failed send, profile update,
\* stop_test or stop_session lowers it.
C18_SentBytesNeverDecrease ==
    [][\A id \in DOMAIN traffic_sessions \cap DOMAIN traffic_sessions' :
           traffic_sessions'[id].serial = traffic_sessions[id].serial =>
               traffic_sessions'[id].server_sent_bytes >=
                   traffic_sessions[id].server_sent_bytes]_vars

\* a session that went through a profile update, sent more than one chunk and
\* then lost its socket in a send
C18_SentThenFailed ==
    \E id \in DOMAIN traffic_sessions :
        /\ requested["worker"] # NoRequest
        /\ ~traffic_sessions[id].active
        /\ traffic_sessions[id].server_sent_bytes > optimal_chunk_size

\* C19: in every shaping tick with effective rate r (kbit/s) and tick
\* interval i (ms), the bytes sent to the session are at most r * i / 8 plus
\* one chunk of optimal_chunk_size.
C19_TickBytesWithinRatePlusChunk ==
    \A id \in DOMAIN last_tick :
        last_tick[id].bytes * 8 <=
            last_tick[id].rate * last_tick[id].interval + 8 * optimal_chunk_size

\* a tick that streamed its whole target in more than one chunk
C19_StreamedFullTarget ==
    \E id \in DOMAIN last_tick :
        /\ last_tick[id].bytes > optimal_chunk_size
        /\ last_tick[id].bytes = TargetBytes(last_tick[id].rate, last_tick[id].interval)

\* the duration-weighted average of burst_rate and pause_rate, in kbit/s
WeightedKbps ==
    (burst_rate * burst_duration + pause_rate * pause_duration)
        \div (burst_duration + pause_duration)

\* C20: for a TwoPhase session shaped in every pass, over any window of at
\* least burst_duration + pause_duration the mean sent rate lies between 0.8
\* and 1.2 times the duration-weighted average of burst_rate and pause_rate.
C20_MeanRateNearWeightedAverage ==
    \A id \in DOMAIN traffic_sessions :
        LET s == traffic_sessions[id]
            len == shape_now - window.start
            bits == (s.server_sent_bytes - window.sent) * 8
        IN  (/\ burst_type(user_type) # "constant"
             /\ window # NoWindow
             /\ s.serial = window.serial
             /\ s.active
             /\ len >= burst_duration + pause_duration) =>
                /\ 10 * bits >= 8 * WeightedKbps * len
                /\ 10 * bits <= 12 * WeightedKbps * len

(***************************************************************************)
(* Claims about the latency tracker (specification SpecLatency).           *)
(***************************************************************************)
\* C21: baseline_established only goes from false to true, and once it is
\* true no later sample changes baseline_latency.
C21_BaselineFixedOnceEstablished ==
    [][latency_tracker.baseline_established =>
           /\ latency_tracker'.baseline_established
           /\ latency_tracker'.baseline_latency = latency_tracker.baseline_latency]_vars

\* the baseline is established, samples have left the history since, and
\* the latest sample differs from the baseline
C21_SampleAfterBaseline ==
    /\ latency_tracker.baseline_established
    /\ latency_tracker.total_pings > Len(latency_tracker.ping_history)
    /\ Len(latency_tracker.ping_history) >= baseline_samples
    /\ 10 * latency_tracker.current_latency # latency_tracker.baseline_latency

\* C30: in a pass that shapes a TwoPhase session, when the time spent in the
\* phase has reached the duration of the phase, the phase flips, its start
\* is set to the time of the pass, the cycle counter goes up by one and the
\* rate of the pass is that of the new phase; otherwise the burst state is
\* unchanged and the rate is that of the current phase
C30_FlipBumpsCycleCount ==
    [][\A id \in DOMAIN traffic_sessions \cap DOMAIN last_tick' :
          shape_now' # shape_now /\ burst_type(user_type) # "constant" =>
             LET s == traffic_sessions[id]
                 after == traffic_sessions'[id]
                 duration == IF s.phase = "active" THEN burst_duration ELSE pause_duration
                 rate(phase) == IF phase = "active" THEN burst_rate ELSE pause_rate
             IN  IF shape_now' - s.phase_start_time >= duration
                 THEN /\ after.phase # s.phase
                      /\ after.phase_start_time = shape_now'
                      /\ after.cycle_count = s.cycle_count + 1
                      /\ last_tick'[id].rate = rate(after.phase)
                 ELSE /\ after.phase = s.phase
                      /\ after.phase_start_time = s.phase_start_time
                      /\ after.cycle_count = s.cycle_count
                      /\ last_tick'[id].rate = rate(s.phase)]_vars

\* C28: in a pass in which a send to a session raises, the session is marked
\* inactive, no chunk is sent after the one that raised, and server_sent_bytes
\* and the download measurement window grow by exactly the sizes of the
\* chunks sent before it
C28_FailedTickCountsSentChunks ==
    [][\A id \in DOMAIN traffic_sessions \cap DOMAIN last_tick' :
          shape_now' # shape_now /\ last_tick'[id].failed =>
             LET tick == last_tick'[id]
             IN  /\ ~traffic_sessions'[id].active
                 /\ Len(tick.frames) = tick.fail_after
                 /\ traffic_sessions'[id].server_sent_bytes
                       = traffic_sessions[id].server_sent_bytes + SumOf(tick.frames)
                 /\ tick.window_bytes = SumOf(tick.frames)]_vars

\* a send raised after three chunks of a tick had been sent
C28_FailedAfterThreeChunks ==
    \E id \in DOMAIN last_tick \cap DOMAIN traffic_sessions :
        /\ last_tick[id].failed
        /\ last_tick[id].frames = <<optimal_chunk_size, optimal_chunk_size, optimal_chunk_size>>
        /\ ~traffic_sessions[id].active

\* C29: every tick of a session that is active and connected, with a positive
\* upload target for the interval, sends exactly one real_upload_request with
\* that target and a chunk size of 1 MiB, whatever the burst phase and the
\* effective download rate of the tick
C29_OneUploadRequestPerTick ==
    \A id \in DOMAIN last_tick \cap DOMAIN traffic_sessions :
        LET target_bytes == (upload_kbps(user_type) * update_interval(user_type)) \div 8
        IN  /\ traffic_sessions[id].serial = last_tick[id].serial
            /\ ~last_tick[id].failed
            /\ target_bytes > 0
            => last_tick[id].upload_requests =
                  <<[type |-> "real_upload_request", target_bytes |-> target_bytes,
                     optimal_chunk_size |-> 1048576]>>

(***************************************************************************)
(* Claims about the message loop of a socket (specification SpecMessages). *)
(***************************************************************************)
MessagesNext ==
    \/ \E frame \in ClientFrames : MsgClientSend(frame)
    \/ MsgClientClose
    \/ MsgLoopTop
    \/ \E ok \in BOOLEAN : MsgLoopReceive(ok)
    \/ MsgLatencyPing
    \/ MsgCleanup
    \/ MsgShape
    \/ MsgElapse

SpecMessages == Init /\ [][MessagesNext]_vars

\* the pongs sent on the socket, in the order of the sends
Pongs == SelectSeq(outbox, LAMBDA f : f.type = "pong")
\* the pings the message loop answered, in the order it received them
AnsweredPings == SelectSeq(received, LAMBDA r : r.answered)

\* C22: the pongs sent on a socket are, one for one and in the same order,
\* the answers to the pings received on it, and each pong carries the
\* sequence and the timestamp of its ping
C22_PongEchoesPingInOrder ==
    /\ Len(Pongs) = Len(AnsweredPings)
    /\ \A k \in 1..Len(Pongs) :
          LET ping == AnsweredPings[k].data
          IN  /\ "sequence" \in DOMAIN ping => Pongs[k].sequence = ping.sequence
              /\ "timestamp" \in DOMAIN ping => Pongs[k].timestamp = ping.timestamp

\* two pings with different sequence numbers and timestamps were answered,
\* with a ping of the server sent between the two pongs
C22_TwoPingsAnswered ==
    /\ Len(Pongs) = 2
    /\ Pongs[1].sequence # Pongs[2].sequence
    /\ Pongs[1].timestamp # Pongs[2].timestamp
    /\ Pongs[1].timestamp # Pongs[1].server_timestamp
    /\ \E i, j, k \in 1..Len(outbox) :
          /\ i < j /\ j < k
          /\ outbox[i].type = "pong" /\ outbox[j].type = "ping" /\ outbox[k].type = "pong"

\* C27: once the message loop has processed a stop_test, the session is
\* inactive, the acknowledgement has been sent to the client that is still
\* there, no download frame and no upload request follows it on the socket,
\* and the handler of the socket returns (which makes the server close the
\* socket) only after the client has closed it
C27_StopTestLeavesCloseToPeer ==
    peer.stopped =>
       /\ ~peer.active
       /\ peer.client = "open" => \E k \in 1..Len(outbox) : outbox[k].type = "stop_test_ack"
       /\ \A i, j \in 1..Len(outbox) :
             i < j /\ outbox[i].type = "stop_test_ack"
                => outbox[j].type \notin {"bytes", "real_upload_request"}
       /\ peer.handler = "returned" => peer.client = "closed"

(***************************************************************************)
(* Claims about POST /netflix-chunk (specification SpecNetflix).           *)
(***************************************************************************)
NetflixInit ==
    /\ RestInit
    /\ call \in {[fn |-> "netflix_chunk", status |-> 0, content |-> << >>,
                  request |-> [sequence |-> sequence, chunkSize |-> chunkSize,
                               quality |-> quality, sessionId |-> sessionId,
                               flowId |-> flowId]] :
                    sequence \in ChunkSequences, chunkSize \in NetflixChunkSizes,
                    quality \in Qualities, sessionId \in SessionIds, flowId \in FlowIds}

NetflixNext == NetflixChunkEndpoint

SpecNetflix == NetflixInit /\ [][NetflixNext]_vars

\* C23: the first 48 bytes of the body of an answer are the header, in which
\* the sequence (bytes 0-3), the chunk size (bytes 8-11), the key frame flag
\* (byte 18, 1 exactly when sequence mod 30 = 0) and the quality index
\* (byte 19) of the request are read, and the session id and the flow id,
\* 16 bytes each, follow at offsets 48 and 64
C23_HeaderIs48BytesThenIds ==
    call.fn = "netflix_chunk" /\ call.status = 200 =>
       LET body == call.content
           request == call.request
       IN  /\ Unpack(SubSeq(body, 1, 4)) = request.sequence
           /\ Unpack(SubSeq(body, 9, 12)) = request.chunkSize
           /\ body[19] = (IF request.sequence % 30 = 0 THEN 1 ELSE 0)
           /\ body[20] = (CASE request.quality = "480p" -> 0
                            [] request.quality = "720p" -> 1
                            [] request.quality = "1080p" -> 2
                            [] request.quality = "HD" -> 3)
           /\ SubSeq(body, 49, 64) = Ljust(request.sessionId, 16)
           /\ SubSeq(body, 65, 80) = Ljust(Decimal(request.flowId), 16)

(***************************************************************************)
(* Claims about the expiry check (specification SpecExpiry).               *)
(***************************************************************************)
ExpiryInit ==
    /\ RestInit
    /\ call \in {[fn |-> "is_session_expired", returned |-> FALSE, result |-> FALSE,
                  time |-> q[1],
                  session |-> [start_time |-> 0, last_activity |-> q[2],
                               download_kbps |-> kbps,
                               connection_test_failures |-> failures]] :
                    q \in {r \in ExpiryTimes \X ExpiryActivity : r[2] <= r[1]},
                    kbps \in ExpiryRates, failures \in 0..max_connection_failures}

ExpiryNext == ExpiryCheck

SpecExpiry == ExpiryInit /\ [][ExpiryNext]_vars

\* C25: the check answers true exactly when the session has been inactive
\* for more than 30 s, or has lasted longer than its cap (45 s when the
\* download rate of its persona is at least 100 Mb/s, 60 s otherwise), or has
\* failed 3 connection tests or more
C25_ExpiredIffOneOfThree ==
    call.fn = "is_session_expired" /\ call.returned =>
       LET session == call.session
           cap == IF session.download_kbps >= 100000 THEN 45000 ELSE 60000
       IN  call.result = (\/ call.time - session.last_activity > 30000
                          \/ call.time - session.start_time > cap
                          \/ session.connection_test_failures >= 3)

(***************************************************************************)
(* The latency task of one session (start_latency_tracking) next to the    *)
(* pongs of its client (specification SpecPing).                           *)
(***************************************************************************)
\* pings the latency task sends in one behaviour
MaxPings == 4
\* the 'sequence' values a client puts in its pongs: the numbers of pings it
\* has been sent and a number of its own
PongSequences == {1, 2, 9}

\* one turn of the loop of start_latency_tracking on a connected, active
\* session: ping_sequence += 1, then the ping with that sequence is sent
LatencyPing ==
    /\ Len(pings) < MaxPings
    /\ latency_tracker' =
         [latency_tracker EXCEPT !.ping_sequence = latency_tracker.ping_sequence + 1]
    /\ pings' = Append(pings, latency_tracker.ping_sequence + 1)
    /\ UNCHANGED <<lat_now, inbox, outbox, received, peer, rlVars, wkVars, pmVars,
                   wlVars, hlVars, stVars, shVars, fnVars, rcVars>>

\* handle_pong on a pong that carries a 'sequence': update_latency(latency_ms,
\* sequence_num)
HandleSequencedPong(d, latency_ms, sequence) ==
    /\ lat_now + d <= MaxLatClock
    /\ latency_tracker.total_pings < MaxPongs
    /\ lat_now' = lat_now + d
    /\ latency_tracker' =
         UpdateLatency(latency_tracker, latency_ms, lat_now + d, <<sequence>>)
    /\ UNCHANGED <<inbox, outbox, received, peer, nonMsVars>>

PingNext ==
    \/ LatencyPing
    \/ \E sequence \in PongSequences : HandleSequencedPong(1000, 10, sequence)

SpecPing == Init /\ [][PingNext]_vars

\* C31: the sequence numbers of the pings of the latency task go up by one
\* from each ping to the next, whatever pongs are handled between two pings
C31_PingSequenceGoesUpByOne ==
    \A i \in 2..Len(pings) : pings[i] = pings[i - 1] + 1

(***************************************************************************)
(* Claims about the bufferbloat classification (specification SpecLatency).*)
(***************************************************************************)
\* C32: every sample handled by a tracker whose baseline is established
\* leaves latency_increase = current_latency - baseline_latency and the
\* severity 'none' below 10 ms, 'mild' below 50 ms, 'moderate' below 200 ms
\* and 'severe' from 200 ms on (the model keeps both in tenths of a ms)
C32_IncreaseAndSeverityAfterSample ==
    [][latency_tracker.baseline_established
         /\ latency_tracker'.total_pings = latency_tracker.total_pings + 1 =>
       LET tr == latency_tracker'
           increase == 10 * tr.current_latency - tr.baseline_latency
       IN  /\ tr.latency_increase = increase
           /\ tr.bufferbloat_severity =
                IF increase < 100 THEN "none"
                ELSE IF increase < 500 THEN "mild"
                ELSE IF increase < 2000 THEN "moderate"
                ELSE "severe"]_vars

\* a sample 174 ms above an established baseline of 126 ms has been handled
C32_ModerateSample ==
    /\ latency_tracker.baseline_established
    /\ latency_tracker.total_pings > baseline_samples
    /\ latency_tracker.baseline_latency = 1260
    /\ latency_tracker.current_latency = 300
    /\ latency_tracker.bufferbloat_severity = "moderate"

(***************************************************************************)
(* The socket of one session from its removal to the return of its handler *)
(* (specification SpecEndpoint): the handler is the one of a worker        *)
(* (simple_user_process.py) or the one of the main server                  *)
(* (websocket_virtual_user); the steps of the server are taken whenever    *)
(* they can be, the client sends and closes when it likes.                 *)
(***************************************************************************)
Endpoints == {"worker", "main"}

EndpointInit ==
    /\ RlInit /\ user_type = "alex" /\ WkInit /\ PmInit /\ WlInit /\ HlInit /\ StInit
    /\ ShInit /\ PgInit /\ RcInit /\ FnInit
    /\ latency_tracker = PerUserLatencyTracker
    /\ lat_now = 0
    /\ inbox = << >>
    /\ outbox = << >>
    /\ received = << >>
    /\ peer \in {[Accepted EXCEPT !.endpoint = e] : e \in Endpoints}

EndpointNext ==
    \/ MessagesNext
    \/ MsgStopRequest

SpecEndpoint ==
    /\ EndpointInit
    /\ [][EndpointNext]_vars
    /\ WF_vars(MsgLoopTop)
    /\ WF_vars(\E ok \in BOOLEAN : MsgLoopReceive(ok))

\* the socket is closed: by the client, or by the server once the handler
\* has returned
TransportClosed == peer.client = "closed" \/ peer.handler = "returned"

\* C33: a session that has been removed from the table has its latency task
\* cancelled, and its socket gets closed
C33_RemovedSessionCancelledAndClosed ==
    /\ [](~peer.registered => peer.latency_task = "cancelled")
    /\ (~peer.registered) ~> TransportClosed

\* C34: once the session is removed from the table its message loop returns,
\* whether the client sends anything or not
C34_LoopReturnsAfterRemoval ==
    (~peer.registered) ~> (peer.handler = "returned")

(***************************************************************************)
(* startup_event of the main server (specification SpecStartup): workers   *)
(* left by an earlier run may answer on some of the ports; the supervisor  *)
(* looks for them (detect_existing_processes) before it starts its own.    *)
(***************************************************************************)
\* detect_existing_processes: every persona whose port answers /health with
\* status 'healthy' gets a ProcessInfo without a process object (process 0);
\* with at least one of them the supervisor runs and its monitor is created,
\* and startup_event starts nothing; with none start_all_processes follows
StartupDetect ==
    /\ call.fn = "startup_event"
    /\ startup.pc = "detect"
    /\ LET detected == call.existing
       IN  /\ processes' = [q \in detected |-> ProcessInfo(q, 0)]
           /\ IF detected # {}
              THEN /\ pm_running' = TRUE
                   /\ monitor' = [NoTask EXCEPT !.pc = "sleep"]
                   /\ startup' = [startup EXCEPT !.pc = "adopted"]
              ELSE /\ startup' = [startup EXCEPT !.pc = "init"]
                   /\ UNCHANGED <<pm_running, monitor>>
    /\ UNCHANGED <<procs, total_restarts, stopper, deaths, http_failures, response,
                   nonPmVars>>

\* the supervisor has just been constructed; existing: the personas whose
\* port is answered by a healthy worker of an earlier run
StartupInit ==
    /\ RlInit /\ user_type = "alex" /\ WkInit /\ WlInit /\ HlInit /\ StInit /\ ShInit
    /\ MsInit /\ RcInit /\ PgInit
    /\ pm_running = FALSE
    /\ processes = << >>
    /\ procs = [q \in Personas |-> << >>]
    /\ total_restarts = [q \in Personas |-> 0]
    /\ startup = [pc |-> "detect", k |-> 0, success_count |-> 0]
    /\ monitor = NoTask
    /\ stopper = "idle"
    /\ deaths = 0
    /\ http_failures = 0
    /\ response = [status |-> 0, redirect |-> FALSE, port |-> 0, listed |-> FALSE,
                   available_processes |-> {}]
    /\ call \in {[fn |-> "startup_event", existing |-> s] : s \in SUBSET Personas}

StartupNext ==
    \/ StartupDetect
    \/ StartAllBegin
    \/ StartAllStep
    \/ \E q \in Personas : \E k \in 1..Len(procs[q]) : Die(q, k)

SpecStartup == StartupInit /\ [][StartupNext]_vars

\* C35: workers of an earlier run are adopted only when every port of
\* user_ports answers healthy, and once startup_event has ended with the
\* supervisor running every persona has a registered worker
C35_SuccessfulStartupRegistersAll ==
    /\ startup.pc = "adopted" => call.existing = Personas
    /\ startup.pc \in {"adopted", "done"} /\ pm_running => DOMAIN processes = Personas

(***************************************************************************)
(* GET /virtual-household/health of the main server next to the supervisor *)
(* (specification SpecHealth).                                             *)
(***************************************************************************)
\* virtual_household_health: 503 'unavailable' when the supervisor does not
\* run; otherwise 'healthy' when every entry of get_process_health() is
\* healthy and 'degraded' when one is not
VirtualHouseholdHealth ==
    /\ call' = IF ~pm_running
               THEN [fn |-> "virtual_household_health", status |-> "unavailable"]
               ELSE LET process_health == [q \in DOMAIN processes |->
                                              [is_healthy |-> processes[q].is_healthy]]
                        healthy_processes ==
                            Cardinality({q \in DOMAIN process_health :
                                            process_health[q].is_healthy})
                        total_processes == Cardinality(DOMAIN process_health)
                    IN  [fn |-> "virtual_household_health",
                         status |-> IF healthy_processes = total_processes
                                    THEN "healthy" ELSE "degraded"]
    /\ UNCHANGED nonFnVars

HealthNext ==
    \/ SupCoreNext
    \/ VirtualHouseholdHealth

SpecHealth == Init /\ [][HealthNext]_vars

\* C36: while a persona has no worker that the supervisor records as
\* registered and healthy, the health endpoint does not answer 'healthy'
C36_DegradedWhilePersonaUnserved ==
    [][VirtualHouseholdHealth /\ Personas \ HealthyPersonas # {}
          => call'.status # "healthy"]_vars

\* the endpoint has answered 'degraded' while the supervisor runs and holds
\* a worker that it has marked unhealthy
C36_DegradedReported ==
    /\ call.fn = "virtual_household_health"
    /\ call.status = "degraded"
    /\ pm_running
    /\ \E q \in Personas : q \in DOMAIN processes /\ ~processes[q].is_healthy

(***************************************************************************)
(* A worker whose clients send frames that are not of the protocol          *)
(* (specification SpecJunk).                                               *)
(***************************************************************************)
\* frames outside the protocol that the clients send in one behaviour
MaxJunkFrames == 1
\* a text that json.loads rejects, and a JSON object of a type that
\* _handle_control_message has no branch for
JunkFrames == {[text |-> "{"], [type |-> "hello"]}

\* _handle_websocket_messages receives such a frame on an open socket:
\* json.JSONDecodeError is logged, an unknown type matches no branch; the
\* loop goes back to its top (received keeps what has arrived)
WsJunkFrame(w, frame) ==
    /\ ws[w].pc = "open"
    /\ Len(received) < MaxJunkFrames
    /\ received' = Append(received, frame)
    /\ UNCHANGED <<wkVars, latency_tracker, lat_now, inbox, outbox, peer, rlVars, pmVars,
                   wlVars, hlVars, stVars, shVars, fnVars, pgVars, rcVars>>

JunkNext ==
    \/ SchedNext
    \/ \E w \in 1..MaxSchedSockets, frame \in JunkFrames : WsJunkFrame(w, frame)

SpecJunk == SchedInit /\ [][JunkNext]_vars

\* C37: a frame outside the protocol leaves the session table as it is, and
\* a session that cleanup_inactive_sessions removes while it is active and
\* its socket is open (its client has sent nothing of the protocol) has been
\* inactive for more than inactivity_timeout
C37_JunkIgnoredThenInactivityExpiry ==
    /\ [][\A w \in 1..MaxSchedSockets, frame \in JunkFrames :
             WsJunkFrame(w, frame) => sessions' = sessions]_vars
    /\ [][SchedCleanup =>
             \A i \in DOMAIN sessions \ DOMAIN sessions' :
                sessions[i].active /\ ws[sessions[i].owner].pc = "open"
                   => now - sessions[i].last_activity > inactivity_timeout]_vars

(***************************************************************************)
(* Two sessions on one worker and the first passes of the background loop  *)
(* (specification SpecPair).                                               *)
(***************************************************************************)
\* the sockets followed, and the instant, in ms, up to which they are
PairSockets == {1, 2}
PairHorizonMs == 1300

PairNext ==
    \/ \E w \in PairSockets : WsConnect(w) /\ now' <= PairHorizonMs
    \/ \E w \in PairSockets, ok \in BOOLEAN : WsAccept(w, ok) /\ now' <= PairHorizonMs
    \/ \E w \in PairSockets : WsRefuse(w) /\ now' <= PairHorizonMs
    \/ \E w \in PairSockets : WsClose(w) /\ now' <= PairHorizonMs
    \/ SchedCleanup /\ now' <= PairHorizonMs
    \/ \E outcome \in {"ok", "error", "timeout"} :
          SchedValidate(outcome) /\ now' <= PairHorizonMs
    \/ \E ok \in BOOLEAN, stalled \in BOOLEAN :
          SchedShape(ok, stalled) /\ now' <= PairHorizonMs
    \/ SchedWake /\ now' <= PairHorizonMs

SpecPair == SchedInit /\ [][PairNext]_vars

\* the sessions other than i are as they were, the loop runs on, and the
\* sessions of todo other than i are still to be handled in this pass
OnlyAffects(i, todo) ==
    /\ \A j \in DOMAIN sessions \ {i} : j \in DOMAIN sessions' /\ sessions'[j] = sessions[j]
    /\ running' = running
    /\ loop'.pc \in {"validate", "shape", "sleep", "cleanup"}
    /\ todo \ {i} # {} => loop'.pc = loop.pc /\ loop'.todo = todo \ {i}

\* C38: a connection test or a traffic generation that fails for one session
\* changes that session only: the loop keeps running, the other sessions of
\* the pass are still tested and shaped, and what has been validated so far
\* stays validated
C38_FailureAffectsOnlyThatSession ==
    [][/\ \A outcome \in {"error", "timeout"} :
             SchedValidate(outcome) =>
                /\ OnlyAffects(NextOf(loop.todo), loop.todo)
                /\ loop.todo \ {NextOf(loop.todo)} # {} => loop'.validated = loop.validated
                /\ loop.todo = {NextOf(loop.todo)} /\ loop.validated # {} =>
                      loop'.pc = "shape" /\ loop'.todo = loop.validated
       /\ \A stalled \in BOOLEAN :
             SchedShape(FALSE, stalled) => OnlyAffects(NextOf(loop.todo), loop.todo)]_vars

\* the traffic generation has failed for one session of a pass and the
\* pass is about to shape the other one
C38_OtherSessionStillToShape ==
    /\ loop.pc = "shape"
    /\ \E i, j \in DOMAIN sessions :
          /\ i # j
          /\ i \in loop.validated \ loop.todo
          /\ ~sessions[i].active
          /\ j \in loop.todo /\ sessions[j].active

(***************************************************************************)
(* start_background_tasks, stop_background_tasks and the exit of a         *)
(* cancelled background_update_loop (specification SpecRace): the steps of *)
(* stop_session between two suspensions, for two sockets of one worker.    *)
(***************************************************************************)
\* the instant, in ms, up to which the two sockets are followed
RaceHorizonMs == 600

\* stop_session(user_id) up to its first suspension: a session of the table
\* is deleted; for an id that is not in the table, with no session left and
\* running set, stop_background_tasks sets running = False, cancels the
\* update task if it is not done and awaits it (the task will run nothing
\* but its finally block)
StopSessionCancel(user_id) ==
    IF user_id \in DOMAIN sessions
    THEN /\ sessions' = Without(sessions, {user_id})
         /\ UNCHANGED <<running, loop, cancelled>>
    ELSE /\ UNCHANGED sessions
         /\ IF SessionCount = 0 /\ running
            THEN /\ running' = FALSE
                 /\ loop' = LoopStopped
                 /\ cancelled' = IF loop.pc # "stopped" THEN cancelled + 1 ELSE cancelled
            ELSE UNCHANGED <<running, loop, cancelled>>

\* what the steps of stop_session leave alone besides the worker's state
nonRaceVars == <<rlVars, pmVars, wlVars, hlVars, stVars, shVars, msVars, fnVars, pgVars>>

\* websocket_user_endpoint when start_session returned False
RaceRefuse(w) ==
    /\ ws[w].pc = "refusing"
    /\ StopSessionCancel(ws[w].user_id)
    /\ ws' = [ws EXCEPT ![w].pc = "refused"]
    /\ UNCHANGED <<user_type, now, others, nonRaceVars>>

\* the message loop of an open socket ends and the finally block calls
\* stop_session(user_id)
RaceClose(w) ==
    /\ ws[w].pc = "open"
    /\ StopSessionCancel(ws[w].user_id)
    /\ ws' = [ws EXCEPT ![w].pc = "closed"]
    /\ UNCHANGED <<user_type, now, others, nonRaceVars>>

\* a cancelled background_update_loop is resumed with CancelledError, which
\* 'except Exception' does not catch: its finally block sets running = False
LoopExit ==
    /\ cancelled > 0
    /\ cancelled' = cancelled - 1
    /\ running' = FALSE
    /\ UNCHANGED <<user_type, now, ws, sessions, others, loop, nonRaceVars>>

RaceNext ==
    \/ \E w \in PairSockets : WsConnect(w) /\ now' <= RaceHorizonMs
    \/ \E w \in PairSockets, ok \in BOOLEAN : WsAccept(w, ok) /\ now' <= RaceHorizonMs
    \/ \E w \in PairSockets : RaceRefuse(w)
    \/ \E w \in PairSockets : RaceClose(w)
    \/ LoopExit
    \/ SchedCleanup /\ now' <= RaceHorizonMs
    \/ \E outcome \in {"ok", "error", "timeout"} :
          SchedValidate(outcome) /\ now' <= RaceHorizonMs
    \/ \E ok \in BOOLEAN, stalled \in BOOLEAN :
          SchedShape(ok, stalled) /\ now' <= RaceHorizonMs
    \/ SchedWake /\ now' <= RaceHorizonMs

SpecRace == SchedInit /\ [][RaceNext]_vars

\* C39: whenever a session is registered on the worker, running is set and
\* the task of the background loop is live
C39_SchedulerRunsWhileSessionsRegistered ==
    DOMAIN sessions # {} => running /\ loop.pc # "stopped"

(***************************************************************************)
(* Claims about the central-server bypass of the limiter (specification    *)
(* Spec).                                                                  *)
(***************************************************************************)
\* the /upload requests of an IP that are in flight and hold a slot: those
\* whose check_upload_limit incremented active_uploads
SlotHolders(ip) ==
    LET holders == {q \in BagToSet(inflight) :
                       q.kind = "upload" /\ q.ip = ip /\ ~q.central}
    IN  BagCardinality([q \in holders |-> inflight[q]])

\* active_uploads of an IP, 0 when the IP has no tracker
ActiveUploads(conn, ip) == IF ip \in DOMAIN conn THEN conn[ip].active_uploads ELSE 0

\* C40: the end of an /upload request with the central server's User-Agent
\* leaves the upload count of every IP as it was, so that no release takes
\* the slot of another request, and the upload count of an IP is the number
\* of its /upload requests in flight that acquired a slot
C40_BypassLeavesCountsAlone ==
    /\ [][\A q \in BagToSet(inflight), o \in Outcomes, elapsed \in BOOLEAN :
             q.central /\ UploadFinish(q, o, elapsed) =>
                \A ip \in IPs : ActiveUploads(connections', ip) = ActiveUploads(connections, ip)]_vars
    /\ [](\A ip \in IPs : ActiveUploads(connections, ip) = SlotHolders(ip))
====
